---- MODULE Spec2Model ----
(***************************************************************************)
(* TrendRadar-visual: the report's export segmentation                     *)
(* (saveAsMultipleImages in src/trendradar/report/html.py), the report's   *)
(* classification of aggregates (render_html_content, same file) and the   *)
(* configuration store (src/trendradar/web/config_store.py with the        *)
(* server's direct text replace, src/trendradar/web/server.py), the        *)
(* server's cached output directory (get_output_dir) and the export's      *)
(* capture loop with its error path (saveAsMultipleImages).                *)
(*                                                                         *)
(* These specifications share the module's variables; each leaves the      *)
(* variables of the other parts at their initial value:                    *)
(*   SpecSeg       the export segmentation of one rendered page            *)
(*   SpecClassify  the classification of one report_data                   *)
(*   SpecStore     the configuration store driven by one writer            *)
(*   SpecMerge     deep_merge_inplace applied to one target and patch      *)
(*   SpecScenario  the split loop on a long report under a given budget    *)
(*   SpecWriters   the configuration store driven by two writers           *)
(*   SpecOutputDir get_output_dir while the configuration and the          *)
(*                 directories change                                      *)
(*   SpecExport    the capture loop's effect on the page; SpecExportFair   *)
(*                 adds that timers fire and promises settle               *)
(***************************************************************************)
EXTENDS Integers, Sequences, FiniteSets, TLC

VARIABLES
  \* ---- export segmentation (html.py, saveAsMultipleImages)
  page,            \* the rendered document: the measured heights of its blocks
  elements,        \* const elements = []            (html.py:683)
  segments,        \* const segments = []            (html.py:762)
  currentSegment,  \* let currentSegment             (html.py:763)
  i,               \* the split loop's index, 0-based as in the script
  segPc,           \* position in saveAsMultipleImages
  \* ---- classification (html.py, render_html_content)
  report_data,     \* the argument: stats and new_titles
  view,            \* what the rendered document shows of it
  clsPc,           \* "input" before the call, "rendered" after it
  \* ---- deep_merge_inplace (config_store.py)
  target,          \* the document merged into
  patch,           \* the patch
  merged,          \* target after the call
  mergePc,         \* "input" before the call, "merged" after it
  \* ---- configuration store (config_store.py, server.py)
  fs,              \* the files: path -> text, or Absent
  backups,         \* the backup files: records [path, ts, text], one per name
  now,             \* datetime.now(), in whole seconds
  config_path,     \* PATHS.config_path
  frequency_words_path,  \* PATHS.frequency_words_path
  writers,         \* the callers that may run an operation
  pc,              \* each caller's position: "idle", "backup", "write"
  call,            \* each caller's operation in progress
  done,            \* each caller's last finished operation and its outcome
  calls,           \* operations started so far
  \* ---- output directory (server.py, get_output_dir)
  config_file,     \* PATHS.config_path as get_output_dir sees it: st_mtime, data_dir
  dirs,            \* the directories that exist
  fstime,          \* the file system's timestamp for a write made now
  OUTPUT_DIR_CACHE,  \* _OUTPUT_DIR_CACHE     (server.py:95)
  returned,        \* what the last get_output_dir call returned, None once
                   \* anything has changed since
  \* ---- the export's effect on the page (html.py, saveAsMultipleImages)
  button,          \* the clicked button: textContent, disabled
  originalText,    \* const originalText        (html.py:664)
  save_buttons,    \* .save-buttons style.visibility
  tempContainers,  \* temporary containers attached to document.body
  images,          \* images.length
  segment_count,   \* segments.length
  loop_i,          \* the running loop's i
  expPc,           \* where the export function is suspended
  exports          \* exports started so far

segVars == <<page, elements, segments, currentSegment, i, segPc>>
clsVars == <<report_data, view, clsPc>>
mergeVars == <<target, patch, merged, mergePc>>
storeVars == <<fs, backups, now, config_path, frequency_words_path, writers, pc, call,
               done, calls>>

outVars == <<config_file, dirs, fstime, OUTPUT_DIR_CACHE, returned>>

exportVars == <<button, originalText, save_buttons, tempContainers, images,
                segment_count, loop_i, expPc, exports>>

vars == <<segVars, clsVars, mergeVars, storeVars, outVars, exportVars>>

\* What the actions of one component leave alone.
notSegVars == <<clsVars, mergeVars, storeVars, outVars, exportVars>>
notClsVars == <<segVars, mergeVars, storeVars, outVars, exportVars>>
notMergeVars == <<segVars, clsVars, storeVars, outVars, exportVars>>
notStoreVars == <<segVars, clsVars, mergeVars, outVars, exportVars>>
notOutVars == <<segVars, clsVars, mergeVars, storeVars, exportVars>>
notExportVars == <<segVars, clsVars, mergeVars, storeVars, outVars>>

(***************************************************************************)
(* Bounds of the model.                                                    *)
(***************************************************************************)
MaxGroups == 2          \* word-groups of the keyword statistics
MaxItems == 2           \* news-items per word-group
MaxStats == 2           \* keyword groups of one report_data (but see ExampleCounts)
MaxTitles == 2          \* titles per keyword group and per new-titles source
MaxRanks == 2           \* observed ranks per title
MaxCalls == 2           \* store operations started in one behaviour
MaxClock == 1           \* the last clock second
MaxMtime == 2           \* the last file-system timestamp
MaxSegments == 3        \* the most segments of one export
MaxExports == 3         \* the most exports started

\* Values the classified inputs are drawn from.
Counts == {2, 4, 5, 6, 10, 12}
ExampleCounts == {<<12, 6, 2>>}   \* a report of three keyword groups
RankValues == {3, 4, 11}
RankThresholds == {2, 4}       \* besides the key being absent (default 10)

\* Measured heights, in CSS pixels, the layouts are drawn from.
HeaderHeights == {120}
FooterHeights == {40, 200}
WordHeaderHeights == {36}
ItemHeights == {60, 1550}
ErrorHeights == {0, 80}             \* 0: no .error-section
NewBodyHeights == {0, 90, 3250}    \* 0: no .new-section

(***************************************************************************)
(* The page's style sheet and the script's constants.                      *)
(***************************************************************************)
containerBorder == 1    \* .container { border: 1px solid }
contentPadTop == 10     \* .content { padding: 10px 12px 14px 12px }
contentPadBottom == 14
groupMargin == 10       \* .word-group, .error-section { margin: 10px 0 }
groupBorder == 1        \* .word-group { border: 1px solid }

\* const scale = 1.5; const maxHeight = 5000 / scale; in whole pixels
\* (geometry is in whole pixels here, so h > 5000/1.5 iff h > 3333).
maxHeight == (5000 * 2) \div 3

RECURSIVE Sum(_, _)
\* s[1] + ... + s[n]
Sum(s, n) == IF n = 0 THEN 0 ELSE s[n] + Sum(s, n - 1)

RECURSIVE SeqsUpTo(_, _)
\* the sequences over S of length 0..n
SeqsUpTo(S, n) ==
  IF n = 0 THEN {<<>>}
  ELSE LET shorter == SeqsUpTo(S, n - 1)
       IN  shorter \cup {Append(s, x) : s \in {t \in shorter : Len(t) = n - 1}, x \in S}

\* A word-group of the statistics: the heights of its news-items (at least
\* one: a keyword is reported with its matched titles).
GroupShapes == SeqsUpTo(ItemHeights, MaxItems) \ {<<>>}

\* The rendered documents: render_html_content's block structure with the
\* heights the browser measured.
Pages ==
  [headerH : HeaderHeights,
   footerH : FooterHeights,
   wordHeaderH : WordHeaderHeights,
   errorH : ErrorHeights,
   groups : SeqsUpTo(GroupShapes, MaxGroups),
   newBodyH : NewBodyHeights,
   reverse : BOOLEAN]

(***************************************************************************)
(* Layout: the block flow of                                               *)
(*   .header, .content [ .error-section, stats | new-section ], .footer    *)
(***************************************************************************)
GroupHeight(p, items) ==
  groupBorder + p.wordHeaderH + Sum(items, Len(items)) + groupBorder

NewSectionHeight(p) == groupBorder + p.wordHeaderH + p.newBodyH + groupBorder

\* The blocks of .content in document order: html += stats_html +
\* new_titles_html, or the reverse under reverse_content_order.
StatBlocks(p) ==
  [g \in 1..Len(p.groups) |-> [kind |-> "group", g |-> g, h |-> GroupHeight(p, p.groups[g])]]

NewBlocks(p) ==
  IF p.newBodyH = 0 THEN <<>>
  ELSE <<[kind |-> "new", g |-> Len(p.groups) + 1, h |-> NewSectionHeight(p)]>>

ErrorBlocks(p) ==
  IF p.errorH = 0 THEN <<>> ELSE <<[kind |-> "error", g |-> 0, h |-> p.errorH]>>

ContentBlocks(p) ==
  ErrorBlocks(p) \o
  (IF p.reverse THEN NewBlocks(p) \o StatBlocks(p) ELSE StatBlocks(p) \o NewBlocks(p))

BlockHeights(p) == [k \in 1..Len(ContentBlocks(p)) |-> ContentBlocks(p)[k].h]

\* Offsets are relative to the container's top edge (containerRect.top).
ContentTop(p) == containerBorder + p.headerH + contentPadTop

BlockTop(p, k) ==
  ContentTop(p) + Sum(BlockHeights(p), k - 1) + k * groupMargin

BlockBottom(p, k) == BlockTop(p, k) + BlockHeights(p)[k]

ContentBottom(p) ==
  LET n == Len(ContentBlocks(p))
  IN  (IF n = 0 THEN ContentTop(p) ELSE BlockBottom(p, n) + groupMargin) + contentPadBottom

FooterTop(p) == ContentBottom(p)
FooterBottom(p) == FooterTop(p) + p.footerH

\* container.offsetHeight
ContainerHeight(p) == FooterBottom(p) + containerBorder

(***************************************************************************)
(* saveAsMultipleImages: the elements the split may fall between           *)
(* (html.py:681-759).                                                      *)
(***************************************************************************)
HeaderElement(p) ==
  [type |-> "header", parent |-> 0, top |-> 0, bottom |-> p.headerH, height |-> p.headerH]

ErrorElements(p) ==
  IF p.errorH = 0 THEN <<>>
  ELSE <<[type |-> "error", parent |-> 0, top |-> BlockTop(p, 1),
          bottom |-> BlockBottom(p, 1), height |-> p.errorH]>>

\* wordGroups.forEach body for the k-th block of .content: the group's
\* .word-header (top: the group's own top) and each of its .news-item; the
\* word-group inside .new-section holds .new-item elements, which
\* querySelectorAll('.news-item') does not match.
WordGroupElements(p, k) ==
  LET b == ContentBlocks(p)[k]
      top == BlockTop(p, k)
      headerBottom == top + groupBorder + p.wordHeaderH
      items == IF b.kind = "group" THEN p.groups[b.g] ELSE <<>>
  IN  <<[type |-> "word-header", parent |-> b.g, top |-> top,
         bottom |-> headerBottom, height |-> p.wordHeaderH]>> \o
      [n \in 1..Len(items) |->
         [type |-> "news-item", parent |-> b.g,
          top |-> headerBottom + Sum(items, n - 1),
          bottom |-> headerBottom + Sum(items, n),
          height |-> items[n]]]

RECURSIVE AllWordGroupElements(_, _)
\* container.querySelectorAll('.word-group') in document order, blocks 1..k
AllWordGroupElements(p, k) ==
  IF k = 0 THEN <<>>
  ELSE AllWordGroupElements(p, k - 1) \o
       (IF ContentBlocks(p)[k].kind = "error" THEN <<>> ELSE WordGroupElements(p, k))

NewSectionIndex(p) ==
  CHOOSE k \in 1..Len(ContentBlocks(p)) : ContentBlocks(p)[k].kind = "new"

NewSectionElements(p) ==
  IF p.newBodyH = 0 THEN <<>>
  ELSE <<[type |-> "new-section", parent |-> 0, top |-> BlockTop(p, NewSectionIndex(p)),
          bottom |-> BlockBottom(p, NewSectionIndex(p)), height |-> NewSectionHeight(p)]>>

FooterElement(p) ==
  [type |-> "footer", parent |-> 0, top |-> FooterTop(p), bottom |-> FooterBottom(p),
   height |-> p.footerH]

CollectElements(p) ==
  <<HeaderElement(p)>> \o ErrorElements(p) \o
  AllWordGroupElements(p, Len(ContentBlocks(p))) \o
  NewSectionElements(p) \o <<FooterElement(p)>>

(***************************************************************************)
(* saveAsMultipleImages: the split loop (html.py:761-794).                 *)
(***************************************************************************)
\* Faulty variant of FirstSegment: the first segment is opened without the
\* header.
FirstSegmentNoHeader(headerHeight) ==
  [start |-> 0, end |-> 0, height |-> headerHeight, includeHeader |-> FALSE]

\* let currentSegment = { start: 0, end: 0, height: 0, includeHeader: true };
\* currentSegment.height = headerHeight;
FirstSegment(headerHeight) ==
  [start |-> 0, end |-> 0, height |-> headerHeight, includeHeader |-> TRUE]

\* Faulty variant of NeedsSplit: the budget alone decides.
NeedsSplitBudgetOnly(cur, element, budget, headerHeight) ==
  element.bottom - cur.start > budget

\* if (potentialHeight > maxHeight && currentSegment.height > headerHeight)
NeedsSplit(cur, element, budget, headerHeight) ==
  /\ element.bottom - cur.start > budget
  /\ cur.height > headerHeight

\* One iteration of the for loop on `element`, `previous` being elements[i - 1]:
\* the segments emitted so far and the current segment after it.
SplitIteration(segs, cur, element, previous, budget, headerHeight) ==
  IF NeedsSplit(cur, element, budget, headerHeight)
  THEN LET closed == [cur EXCEPT !.end = previous.bottom]
       IN  [segments |-> Append(segs, closed),
            current |-> [start |-> closed.end, end |-> 0,
                         height |-> element.bottom - closed.end,
                         includeHeader |-> FALSE]]
  ELSE [segments |-> segs,
        current |-> [cur EXCEPT !.height = element.bottom - cur.start,
                                !.end = element.bottom]]

\* Faulty variant of LastSegment: the last segment is pushed as the loop left it,
\* not extended to the container's height.
LastSegmentNotExtended(segs, cur, offsetHeight) ==
  IF cur.height > 0 THEN Append(segs, cur) ELSE segs

\* if (currentSegment.height > 0) { currentSegment.end = container.offsetHeight; push }
LastSegment(segs, cur, offsetHeight) ==
  IF cur.height > 0 THEN Append(segs, [cur EXCEPT !.end = offsetHeight]) ELSE segs

NoSegment == [start |-> 0, end |-> 0, height |-> 0, includeHeader |-> FALSE]

SegIdle ==
  /\ page = [headerH |-> 0, footerH |-> 0, wordHeaderH |-> 0, errorH |-> 0,
             groups |-> <<>>, newBodyH |-> 0, reverse |-> FALSE]
  /\ elements = <<>>
  /\ segments = <<>>
  /\ currentSegment = NoSegment
  /\ i = 0
  /\ segPc = "idle"

SegInit ==
  /\ page \in Pages
  /\ elements = <<>>
  /\ segments = <<>>
  /\ currentSegment = NoSegment
  /\ i = 0
  /\ segPc = "collect"

\* html.py:673-765: measure the page, collect the elements, open the first segment
Collect ==
  /\ segPc = "collect"
  /\ elements' = CollectElements(page)
  /\ segments' = <<>>
  /\ currentSegment' = FirstSegment(page.headerH)
  /\ i' = 1
  /\ segPc' = "split"
  /\ UNCHANGED <<page, notSegVars>>

\* html.py:767-788: for (let i = 1; i < elements.length; i++) { ... }
SplitStep ==
  /\ segPc = "split"
  /\ i < Len(elements)
  /\ LET r == SplitIteration(segments, currentSegment, elements[i + 1], elements[i],
                             maxHeight, page.headerH)
     IN  /\ segments' = r.segments
         /\ currentSegment' = r.current
  /\ i' = i + 1
  /\ UNCHANGED <<page, elements, segPc, notSegVars>>

\* html.py:790-794: the last segment
Finish ==
  /\ segPc = "split"
  /\ i >= Len(elements)
  /\ segments' = LastSegment(segments, currentSegment, ContainerHeight(page))
  /\ segPc' = "segmented"
  /\ UNCHANGED <<page, elements, currentSegment, i, notSegVars>>

SegNext == Collect \/ SplitStep \/ Finish

(***************************************************************************)
(* Export segmentation: what the claims speak of.                          *)
(***************************************************************************)
Segmented == segPc = "segmented"

SegmentHeight(s) == s.end - s.start

\* The inner boundaries: where one segment ends and the next starts.
Boundaries == {segments[k].end : k \in 1..(Len(segments) - 1)}

\* The atomic group an element belongs to: its parent word-group, the
\* .new-section (whose word-group is the parent of its word-header), the
\* .error-section; 0 for the header and the footer.
GroupOf(p, e) ==
  CASE e.type \in {"word-header", "news-item"} -> e.parent
    [] e.type = "new-section" -> Len(p.groups) + 1
    [] e.type = "error" -> Len(p.groups) + 2
    [] OTHER -> 0

GroupIds(p) == {GroupOf(p, elements[k]) : k \in 1..Len(elements)} \ {0}

GroupMembers(p, g) == {k \in 1..Len(elements) : GroupOf(p, elements[k]) = g}

GroupTop(p, g) ==
  CHOOSE t \in {elements[k].top : k \in GroupMembers(p, g)} :
    \A k \in GroupMembers(p, g) : t <= elements[k].top

GroupBottom(p, g) ==
  CHOOSE b \in {elements[k].bottom : k \in GroupMembers(p, g)} :
    \A k \in GroupMembers(p, g) : b >= elements[k].bottom

\* Document order agrees with the order of the elements' bottom offsets.
MonotonicGeometry ==
  \A k \in 1..(Len(elements) - 1) : elements[k].bottom <= elements[k + 1].bottom

\* The groups with a part inside segment s.
GroupsIn(p, s) ==
  {g \in GroupIds(p) : GroupTop(p, g) < s.end /\ GroupBottom(p, g) > s.start}

\* C1 (segmentation coverage): once the split loop has finished, the emitted
\* segments are ordered, contiguous and non-overlapping, the first starts at
\* offset 0 and the last ends at the container's total height.
C1_Coverage ==
  Segmented =>
    /\ Len(segments) >= 1
    /\ segments[1].start = 0
    /\ segments[Len(segments)].end = ContainerHeight(page)
    /\ \A k \in 1..(Len(segments) - 1) : segments[k].end = segments[k + 1].start
    /\ \A k \in 1..Len(segments) : segments[k].start < segments[k].end

\* C1 witness: a page exported in three segments or more, all emitted.
C1_Witness ==
  /\ Segmented
  /\ MonotonicGeometry
  /\ Len(segments) >= 3
  /\ segments[Len(segments)].end = ContainerHeight(page)

\* C2 (segmentation atomicity): no segment boundary falls strictly between the
\* top of an atomic group's first node and the bottom of its last node.
C2_Atomicity ==
  Segmented =>
    \A g \in GroupIds(page) : \A b \in Boundaries :
      ~(GroupTop(page, g) < b /\ b < GroupBottom(page, g))

\* C3 (segmentation budget): with monotonic geometry, every emitted segment is
\* at most maxHeight tall, except a segment that holds, besides the header or
\* the footer, one atomic group only, itself taller than maxHeight.
C3_Budget ==
  (Segmented /\ MonotonicGeometry) =>
    \A k \in 1..Len(segments) :
      \/ SegmentHeight(segments[k]) <= maxHeight
      \/ \E g \in GroupIds(page) :
           /\ GroupsIn(page, segments[k]) = {g}
           /\ GroupBottom(page, g) - GroupTop(page, g) > maxHeight

(***************************************************************************)
(* render_html_content: the classification the document shows              *)
(* (html.py:388-561).                                                      *)
(***************************************************************************)
\* str(n) for n >= 0, as its characters
Digit(d) == <<"0", "1", "2", "3", "4", "5", "6", "7", "8", "9">>[d + 1]

RECURSIVE Str(_)
Str(n) == IF n < 10 THEN <<Digit(n)>> ELSE Str(n \div 10) \o <<Digit(n % 10)>>

RECURSIVE PyMin(_, _)
\* min(s[1..n]), n >= 1
PyMin(s, n) ==
  IF n = 1 THEN s[1]
  ELSE LET m == PyMin(s, n - 1) IN IF s[n] < m THEN s[n] ELSE m

RECURSIVE PyMax(_, _)
\* max(s[1..n]), n >= 1
PyMax(s, n) ==
  IF n = 1 THEN s[1]
  ELSE LET m == PyMax(s, n - 1) IN IF s[n] > m THEN s[n] ELSE m

\* title_data.get("rank_threshold", 10)
DefaultRankThreshold == 10
GetRankThreshold(title_data) ==
  IF title_data.has_rank_threshold THEN title_data.rank_threshold
  ELSE DefaultRankThreshold

\* Faulty variant of CountClass: the thresholds compared with > instead of >=.
CountClassStrict(count) ==
  IF count > 10 THEN "hot" ELSE IF count > 5 THEN "warm" ELSE ""

\* html.py:396-402
CountClass(count) ==
  IF count >= 10 THEN "hot" ELSE IF count >= 5 THEN "warm" ELSE ""

\* Faulty variant of RankClass: the threshold is tested before the top three.
RankClassThresholdFirst(min_rank, rank_threshold) ==
  IF min_rank <= rank_threshold THEN "high"
  ELSE IF min_rank <= 3 THEN "top" ELSE ""

\* html.py:437-443 and 524-527
RankClass(min_rank, rank_threshold) ==
  IF min_rank <= 3 THEN "top"
  ELSE IF min_rank <= rank_threshold THEN "high" ELSE ""

\* html.py:430-450: the rank badge of a title of the keyword list; none is
\* emitted when ranks is empty.
StatsRankBadge(title_data) ==
  LET ranks == title_data.ranks IN
  IF Len(ranks) > 0
  THEN LET min_rank == PyMin(ranks, Len(ranks))
           max_rank == PyMax(ranks, Len(ranks))
       IN  <<[rank_class |-> RankClass(min_rank, GetRankThreshold(title_data)),
              rank_text |-> IF min_rank = max_rank THEN Str(min_rank)
                            ELSE Str(min_rank) \o <<"-">> \o Str(max_rank)]>>
  ELSE <<>>

\* html.py:518-542: the rank badge of a title of the new-titles list, always
\* emitted.
NewRankBadge(title_data) ==
  LET ranks == title_data.ranks IN
  <<[rank_class |-> IF Len(ranks) > 0
                    THEN RankClass(PyMin(ranks, Len(ranks)), GetRankThreshold(title_data))
                    ELSE "",
     rank_text |-> IF Len(ranks) > 0
                   THEN IF Len(ranks) = 1 THEN Str(ranks[1])
                        ELSE Str(PyMin(ranks, Len(ranks))) \o <<"-">> \o
                             Str(PyMax(ranks, Len(ranks)))
                   ELSE <<"?">>]>>

\* Faulty variant of StatsView: both enumerations start at 0.
StatsViewZeroBased(stats) ==
  [k \in 1..Len(stats) |->
     [word |-> stats[k].word,
      count |-> stats[k].count,
      count_class |-> CountClass(stats[k].count),
      i |-> k - 1,
      total_count |-> Len(stats),
      titles |-> [j \in 1..Len(stats[k].titles) |->
                    [title |-> stats[k].titles[j].title,
                     number |-> j - 1,
                     rank_badge |-> StatsRankBadge(stats[k].titles[j])]]]]

\* html.py:393-489: for i, stat in enumerate(report_data["stats"], 1)
StatsView(stats) ==
  [k \in 1..Len(stats) |->
     [word |-> stats[k].word,
      count |-> stats[k].count,
      count_class |-> CountClass(stats[k].count),
      i |-> k,
      total_count |-> Len(stats),
      titles |-> [j \in 1..Len(stats[k].titles) |->
                    [title |-> stats[k].titles[j].title,
                     number |-> j,
                     rank_badge |-> StatsRankBadge(stats[k].titles[j])]]]]

\* html.py:504-557: for source_data in report_data["new_titles"]
NewTitlesView(new_titles) ==
  [k \in 1..Len(new_titles) |->
     [source_name |-> new_titles[k].source_name,
      titles_count |-> Len(new_titles[k].titles),
      titles |-> [j \in 1..Len(new_titles[k].titles) |->
                    [title |-> new_titles[k].titles[j].title,
                     number |-> j,
                     rank_badge |-> NewRankBadge(new_titles[k].titles[j])]]]]

\* Faulty variant of RenderView: stats_html and new_titles_html are kept from
\* the previous call and appended to.
RenderViewCarried(rd) ==
  [stats |-> view.stats \o StatsView(rd.stats),
   new_titles |-> view.new_titles \o NewTitlesView(rd.new_titles)]

\* html.py:389-561: stats_html and new_titles_html, both built from "" on
\* every call
RenderView(rd) == [stats |-> StatsView(rd.stats), new_titles |-> NewTitlesView(rd.new_titles)]

\* The rank data of a title: its observed ranks and its rank_threshold key.
RankData ==
  [ranks : SeqsUpTo(RankValues, MaxRanks),
   has_rank_threshold : {TRUE},
   rank_threshold : RankThresholds]
  \cup
  [ranks : SeqsUpTo(RankValues, MaxRanks),
   has_rank_threshold : {FALSE},
   rank_threshold : {0}]

TitleData(k, j, d) ==
  [title |-> <<k, j>>, ranks |-> d.ranks,
   has_rank_threshold |-> d.has_rank_threshold, rank_threshold |-> d.rank_threshold]

\* The reports classified: any counts, n titles per keyword group and per
\* source, every title with the same rank data d (the titles are told apart
\* by their text).
ReportData(counts, n, d) ==
  [stats |-> [k \in 1..Len(counts) |->
                [word |-> k, count |-> counts[k],
                 titles |-> [j \in 1..n |-> TitleData(k, j, d)]]],
   new_titles |-> IF n = 0 THEN <<>>
                  ELSE <<[source_name |-> 1,
                          titles |-> [j \in 1..n |-> TitleData(0, j, d)]]>>]

NoView == [stats |-> <<>>, new_titles |-> <<>>]

ClsIdle ==
  /\ report_data = [stats |-> <<>>, new_titles |-> <<>>]
  /\ view = NoView
  /\ clsPc = "idle"

ClsInit ==
  /\ \E counts \in SeqsUpTo(Counts, MaxStats) \cup ExampleCounts,
        n \in 0..MaxTitles, d \in RankData :
       report_data = ReportData(counts, n, d)
  /\ view = NoView
  /\ clsPc = "input"

\* render_html_content(report_data, ...)
Render ==
  /\ clsPc = "input"
  /\ view' = RenderView(report_data)
  /\ clsPc' = "rendered"
  /\ UNCHANGED <<report_data, notClsVars>>

\* render_html_content called again with the same report_data
RenderAgain ==
  /\ clsPc = "rendered"
  /\ view' = RenderView(report_data)
  /\ clsPc' = "rerendered"
  /\ UNCHANGED <<report_data, notClsVars>>

ClsNext == Render \/ RenderAgain

(***************************************************************************)
(* YAML documents (YamlData): a tagged tree.  A mapping keeps its keys in  *)
(* insertion order, as a Python dict and ruamel's CommentedMap do.         *)
(***************************************************************************)
Scalar(n) == [t |-> "scalar", items |-> <<>>, s |-> n]
NullDoc == [t |-> "null", items |-> <<>>, s |-> 0]
\* a sequence of scalars
SeqDoc(ns) == [t |-> "seq", items |-> [n \in 1..Len(ns) |-> [k |-> "", v |-> Scalar(ns[n])]], s |-> 0]
\* a mapping with the keys ks in this order and the values vs
MapDoc(ks, vs) == [t |-> "map", items |-> [n \in 1..Len(ks) |-> [k |-> ks[n], v |-> vs[n]]], s |-> 0]
EmptyMap == MapDoc(<<>>, <<>>)

\* isinstance(d, dict)
IsDict(d) == d.t = "map"

Keys(d) == {d.items[n].k : n \in 1..Len(d.items)}

\* k in d
HasKey(d, k) == k \in Keys(d)

\* d[k], for k in d
Get(d, k) == d.items[CHOOSE n \in 1..Len(d.items) : d.items[n].k = k].v

\* d[k] = v: an existing key keeps its place, a new key goes last
Put(d, k, v) ==
  IF HasKey(d, k)
  THEN [d EXCEPT !.items = [n \in 1..Len(d.items) |->
                              IF d.items[n].k = k THEN [k |-> k, v |-> v] ELSE d.items[n]]]
  ELSE [d EXCEPT !.items = Append(d.items, [k |-> k, v |-> v])]

RECURSIVE MergeItems(_, _, _)
RECURSIVE deep_merge_inplace(_, _)

\* Faulty variant of deep_merge_inplace: a shallow update, every patched key replaced
\* wholesale.
deep_merge_shallow(tgt, pch) ==
  LET RECURSIVE Update(_, _)
      Update(d, n) ==
        IF n = 0 THEN d ELSE Put(Update(d, n - 1), pch.items[n].k, pch.items[n].v)
  IN  IF pch.t = "null" THEN tgt
      ELSE IF IsDict(tgt) /\ IsDict(pch) THEN Update(tgt, Len(pch.items))
      ELSE pch

\* config_store.py:37-41: for k, v in patch.items(), items 1..n done
MergeItems(tgt, pch, n) ==
  IF n = 0 THEN tgt
  ELSE LET t == MergeItems(tgt, pch, n - 1)
           k == pch.items[n].k
           v == pch.items[n].v
       IN  IF HasKey(t, k) /\ IsDict(Get(t, k)) /\ IsDict(v)
           THEN Put(t, k, deep_merge_inplace(Get(t, k), v))
           ELSE Put(t, k, v)

\* config_store.py:32-45: the value returned; a dict target is also changed in
\* place to that value.
deep_merge_inplace(tgt, pch) ==
  IF pch.t = "null" THEN tgt
  ELSE IF IsDict(tgt) /\ IsDict(pch) THEN MergeItems(tgt, pch, Len(pch.items))
  ELSE pch

\* The documents merged: mappings two levels deep.
InnerKeyLists == {<<>>, <<"b">>, <<"c">>, <<"b", "c">>}
OuterKeyLists == {<<>>, <<"a">>, <<"b">>, <<"a", "b">>, <<"b", "a">>}

MapsOver(keyLists, values) ==
  UNION {{MapDoc(ks, vs) : vs \in [1..Len(ks) -> values]} : ks \in keyLists}

TargetLeaves == {Scalar(1), Scalar(2)}
PatchLeaves == {Scalar(99), SeqDoc(<<1, 2>>)}
TargetDocs == MapsOver(OuterKeyLists, TargetLeaves \cup MapsOver(InnerKeyLists, TargetLeaves))
PatchDocs == MapsOver(OuterKeyLists, PatchLeaves \cup MapsOver(InnerKeyLists, PatchLeaves))

MergeIdle ==
  /\ target = NullDoc
  /\ patch = NullDoc
  /\ merged = NullDoc
  /\ mergePc = "idle"

MergeInit ==
  /\ target \in TargetDocs
  /\ patch \in PatchDocs
  /\ merged = NullDoc
  /\ mergePc = "input"

\* deep_merge_inplace(target, patch)
Merge ==
  /\ mergePc = "input"
  /\ merged' = deep_merge_inplace(target, patch)
  /\ mergePc' = "merged"
  /\ UNCHANGED <<target, patch, notMergeVars>>

MergeNext == Merge

(***************************************************************************)
(* The configuration store: files and texts.                               *)
(*                                                                         *)
(* A text is what a file holds: the document it parses to (kind "yaml"),   *)
(* nothing (kind "empty", the text ""), something that is no YAML (kind    *)
(* "bad"), or a keyword list (kind "words"); crlf tells whether its lines  *)
(* end in CR LF.                                                           *)
(***************************************************************************)
Absent == [kind |-> "absent", doc |-> NullDoc, crlf |-> FALSE]
EmptyText == [kind |-> "empty", doc |-> NullDoc, crlf |-> FALSE]
BadYamlText == [kind |-> "bad", doc |-> NullDoc, crlf |-> FALSE]
YamlText(d) == [kind |-> "yaml", doc |-> d, crlf |-> FALSE]
WordsText(n) == [kind |-> "words", doc |-> Scalar(n), crlf |-> FALSE]
WithCrlf(t) == [t EXCEPT !.crlf = TRUE]

\* server.py:47-48 and 70-77
AppDefaultConfig == "/app/config.default/config.yaml"
LocalConfig == "config/config.yaml"
EnvConfig == "$CONFIG_PATH"
AppDefaultWords == "/app/config.default/frequency_words.txt"
LocalWords == "config/frequency_words.txt"
EnvWords == "$FREQUENCY_WORDS_PATH"
Paths == {AppDefaultConfig, LocalConfig, EnvConfig, AppDefaultWords, LocalWords, EnvWords}

default_config_candidates == <<AppDefaultConfig, LocalConfig>>
default_words_candidates == <<AppDefaultWords, LocalWords>>

Writers == {1, 2}

\* path.exists()
Exists(p) == fs[p].kind # "absent"

\* Path.read_text(encoding="utf-8"): text mode, universal newlines
ReadText(t) == [t EXCEPT !.crlf = FALSE]

\* bool(text)
NonEmpty(t) == t.kind # "empty"

\* y.load(text) / yaml.safe_load(text) raises
LoadRaises(t) == t.kind = "bad"
\* y.load(text) / yaml.safe_load(text), None being NullDoc
Load(t) == IF t.kind = "yaml" THEN t.doc ELSE NullDoc

\* Reverse(s): the sequence s backwards
Reverse(s) == [n \in 1..Len(s) |-> s[Len(s) + 1 - n]]

\* Faulty variant of dump_yaml: the root's keys are written last to first.
dump_yaml_reversed(d) == YamlText([d EXCEPT !.items = Reverse(d.items)])

\* config_store.py:86-90
dump_yaml(d) == YamlText(d)

RECURSIVE FirstExisting(_, _)
\* config_store.py:65-69: the text of the first existing candidate from the
\* n-th on, Absent standing for None
FirstExisting(candidates, n) ==
  IF n > Len(candidates) THEN Absent
  ELSE IF Exists(candidates[n]) THEN ReadText(fs[candidates[n]])
  ELSE FirstExisting(candidates, n + 1)

RECURSIVE LastExisting(_, _)
LastExisting(candidates, n) ==
  IF n = 0 THEN Absent
  ELSE IF Exists(candidates[n]) THEN ReadText(fs[candidates[n]])
  ELSE LastExisting(candidates, n - 1)

\* Faulty variant of read_default_text: the last existing candidate wins.
read_default_text_last(candidates) == LastExisting(candidates, Len(candidates))

read_default_text(candidates) == FirstExisting(candidates, 1)

\* config_store.py:55-58 and server.py:221-224
read_text_or_empty(p) == IF Exists(p) THEN ReadText(fs[p]) ELSE EmptyText

\* Faulty variant of load_config_yaml: no fallback to the default template.
load_config_yaml_no_fallback ==
  LET text == read_text_or_empty(config_path)
  IN  IF ~NonEmpty(text) THEN [raises |-> FALSE, data |-> EmptyMap]
      ELSE [raises |-> LoadRaises(text), data |-> Load(text)]

\* config_store.py:77-84: [raises, data]
load_config_yaml ==
  LET own == read_text_or_empty(config_path)
      fallback == read_default_text(default_config_candidates)
      text == IF NonEmpty(own) THEN own
              ELSE IF fallback = Absent THEN EmptyText ELSE fallback
  IN  IF ~NonEmpty(text) THEN [raises |-> FALSE, data |-> EmptyMap]
      ELSE [raises |-> LoadRaises(text), data |-> Load(text)]

(***************************************************************************)
(* The store's operations.  An operation runs in three steps: the handler  *)
(* up to its call of write_with_backup (or its failure), the backup, the   *)
(* write.                                                                  *)
(***************************************************************************)
NoCall == [op |-> "none", path |-> LocalConfig, arg |-> NullDoc, content |-> Absent,
           ts |-> 0, backed_up |-> FALSE, pre_text |-> Absent, pre_backups |-> {}]
NoDone == [op |-> "none", path |-> LocalConfig, arg |-> NullDoc, result |-> "none",
           value |-> NullDoc, content |-> Absent, backed_up |-> FALSE,
           pre_text |-> Absent, pre_backups |-> {}]

\* The configuration documents and texts of the model.
BaseDoc == MapDoc(<<"a", "d">>, <<MapDoc(<<"b", "c">>, <<Scalar(1), Scalar(2)>>), Scalar(1)>>)
DefaultDoc == MapDoc(<<"a">>, <<MapDoc(<<"b">>, <<Scalar(2)>>)>>)
SeqRootDoc == SeqDoc(<<1, 2>>)
Patches == {MapDoc(<<"a">>, <<MapDoc(<<"b">>, <<Scalar(99)>>)>>), EmptyMap}
\* What a caller can hand to patch_config, and a request body's "patch".
PatchArguments == Patches \cup {SeqRootDoc, NullDoc}
BodyPatches == {MapDoc(<<"a">>, <<MapDoc(<<"b">>, <<Scalar(99)>>)>>), SeqRootDoc}
\* What the files can hold when the server starts.
ActiveTexts == {Absent, YamlText(BaseDoc), WithCrlf(YamlText(BaseDoc)), YamlText(SeqRootDoc),
                YamlText(NullDoc), EmptyText}
TemplateTexts == {Absent, YamlText(DefaultDoc), WithCrlf(YamlText(DefaultDoc)),
                  YamlText(SeqRootDoc), EmptyText, BadYamlText}
PutConfigTexts == {WithCrlf(YamlText(DefaultDoc)), YamlText(SeqRootDoc), BadYamlText}
PutWordsTexts == {WordsText(3)}

StoreIdle ==
  /\ fs = [p \in Paths |-> Absent]
  /\ backups = {}
  /\ now = 0
  /\ config_path = LocalConfig
  /\ frequency_words_path = LocalWords
  /\ writers = {}
  /\ pc = [w \in Writers |-> "idle"]
  /\ call = [w \in Writers |-> NoCall]
  /\ done = [w \in Writers |-> NoDone]
  /\ calls = 0

\* server.py:46-78: the paths come from the environment or default to
\* config/...; any of the files may exist when the server starts.  Either the
\* configuration files vary and the keyword files hold their usual texts, or
\* the other way round.
StoreInit(ws) ==
  /\ \E env \in BOOLEAN :
       /\ config_path = IF env THEN EnvConfig ELSE LocalConfig
       /\ frequency_words_path = IF env THEN EnvWords ELSE LocalWords
       /\ \E active \in ActiveTexts, appdef \in TemplateTexts,
             other \in {Absent, YamlText(BaseDoc)},
             words \in {Absent, WordsText(1)},
             wordsdef \in {Absent, WordsText(0), EmptyText} :
            /\ (~env) => other = Absent
            /\ \/ words = WordsText(1) /\ wordsdef = WordsText(0)
               \/ active = YamlText(BaseDoc) /\ appdef = YamlText(DefaultDoc) /\ other = Absent
            /\ fs = [p \in Paths |->
                       CASE p = config_path -> active
                         [] p = AppDefaultConfig -> appdef
                         [] p = frequency_words_path -> words
                         [] p = AppDefaultWords -> wordsdef
                         [] p = LocalConfig /\ env -> other
                         [] OTHER -> Absent]
  /\ backups = {}
  /\ now = 0
  /\ writers = ws
  /\ pc = [w \in Writers |-> "idle"]
  /\ call = [w \in Writers |-> NoCall]
  /\ done = [w \in Writers |-> NoDone]
  /\ calls = 0

\* Faulty variant of CanStart: an operation waits until no other is under way.
CanStartExclusive(w) ==
  /\ w \in writers /\ pc[w] = "idle" /\ calls < MaxCalls
  /\ \A v \in writers : pc[v] = "idle"

\* A caller enters an operation whatever the other callers are doing: the
\* store and the handlers take no lock (config_store.py:92-129, server.py:227-233).
CanStart(w) == w \in writers /\ pc[w] = "idle" /\ calls < MaxCalls

\* The handler goes on to write_with_backup(path, content).
Proceed(w, op, path, arg, content) ==
  /\ pc' = [pc EXCEPT ![w] = "backup"]
  /\ call' = [call EXCEPT ![w] =
                [op |-> op, path |-> path, arg |-> arg, content |-> content, ts |-> 0,
                 backed_up |-> FALSE, pre_text |-> fs[path], pre_backups |-> backups]]
  /\ calls' = calls + 1
  /\ UNCHANGED <<fs, backups, now, config_path, frequency_words_path, writers, done>>

\* The handler ends before any file is touched: it raises error, or (a read)
\* returns value with the result "ok".
Return(w, op, path, arg, result, value) ==
  /\ done' = [done EXCEPT ![w] =
                [op |-> op, path |-> path, arg |-> arg, result |-> result,
                 value |-> value, content |-> Absent,
                 backed_up |-> FALSE, pre_text |-> fs[path], pre_backups |-> backups]]
  /\ calls' = calls + 1
  /\ UNCHANGED <<fs, backups, now, config_path, frequency_words_path, writers, pc, call>>

\* The handler raises error before any file is touched.
Fail(w, op, path, arg, error) == Return(w, op, path, arg, error, NullDoc)

\* What data holds after deep_merge_inplace(data, patch), whose return value
\* patch_config drops (config_store.py:107): a mapping is merged into in
\* place, anything else is only returned.
MergedInPlace(data, p) ==
  IF IsDict(data) /\ IsDict(p) THEN deep_merge_inplace(data, p) ELSE data

\* Faulty variant of patch_config: a root that is no mapping is replaced by
\* the merge's result instead of being refused.
patch_config_unchecked(w, p) ==
  LET loaded == load_config_yaml
      data == IF loaded.data = NullDoc THEN EmptyMap ELSE loaded.data
  IN  IF loaded.raises THEN Fail(w, "patch_config", config_path, p, "YAMLError")
      ELSE Proceed(w, "patch_config", config_path, p,
                   dump_yaml(deep_merge_inplace(data, p)))

\* Faulty variant of patch_config: the patch is written in place of the
\* merged document.
patch_config_replacing(w, p) ==
  LET loaded == load_config_yaml
      data == IF loaded.data = NullDoc THEN EmptyMap ELSE loaded.data
  IN  IF loaded.raises THEN Fail(w, "patch_config", config_path, p, "YAMLError")
      ELSE IF ~IsDict(data) THEN Fail(w, "patch_config", config_path, p, "ValueError")
      ELSE Proceed(w, "patch_config", config_path, p, dump_yaml(IF IsDict(p) THEN p ELSE data))

\* config_store.py:100-110: ConfigStore.patch_config(patch)
patch_config(w, p) ==
  LET loaded == load_config_yaml
      data == IF loaded.data = NullDoc THEN EmptyMap ELSE loaded.data
  IN  IF loaded.raises THEN Fail(w, "patch_config", config_path, p, "YAMLError")
      ELSE IF ~IsDict(data) THEN Fail(w, "patch_config", config_path, p, "ValueError")
      ELSE Proceed(w, "patch_config", config_path, p, dump_yaml(MergedInPlace(data, p)))

\* A caller of the store's patch_config, with whatever it passes as the patch.
call_patch_config(w, p) ==
  /\ CanStart(w)
  /\ patch_config(w, p)
  /\ UNCHANGED notStoreVars

\* server.py:514-525: PUT /api/admin/config/patch, p being the body's "patch"
admin_patch_config(w, p) ==
  /\ CanStart(w)
  /\ IF ~IsDict(p) THEN Fail(w, "admin_patch_config", config_path, p, "HTTP400")
     ELSE patch_config(w, p)
  /\ UNCHANGED notStoreVars

\* Faulty variant of reset_config_to_default: the template is written without
\* being validated.
reset_config_unvalidated(w) ==
  /\ CanStart(w)
  /\ LET default_text == read_default_text(default_config_candidates)
     IN  IF default_text = Absent \/ ~NonEmpty(default_text)
         THEN Fail(w, "reset_config_to_default", config_path, NullDoc, "FileNotFoundError")
         ELSE Proceed(w, "reset_config_to_default", config_path, NullDoc, default_text)
  /\ UNCHANGED notStoreVars

\* config_store.py:112-122, as called by server.py:528-535
reset_config_to_default(w) ==
  /\ CanStart(w)
  /\ LET default_text == read_default_text(default_config_candidates)
     IN  IF default_text = Absent \/ ~NonEmpty(default_text)
         THEN Fail(w, "reset_config_to_default", config_path, NullDoc, "FileNotFoundError")
         ELSE IF LoadRaises(default_text)
         THEN Fail(w, "reset_config_to_default", config_path, NullDoc, "YAMLError")
         ELSE IF ~IsDict(Load(default_text))
         THEN Fail(w, "reset_config_to_default", config_path, NullDoc, "ValueError")
         ELSE Proceed(w, "reset_config_to_default", config_path, NullDoc, default_text)
  /\ UNCHANGED notStoreVars

\* config_store.py:124-129, as called by server.py:562-569
reset_words_to_default(w) ==
  /\ CanStart(w)
  /\ LET default_text == read_default_text(default_words_candidates)
     IN  IF default_text = Absent
         THEN Fail(w, "reset_words_to_default", frequency_words_path, NullDoc,
                   "FileNotFoundError")
         ELSE Proceed(w, "reset_words_to_default", frequency_words_path, NullDoc,
                      default_text)
  /\ UNCHANGED notStoreVars

\* Faulty variant of admin_put_config: any text that parses is written.
admin_put_config_any_root(w, content) ==
  /\ CanStart(w)
  /\ IF LoadRaises(content)
     THEN Fail(w, "admin_put_config", config_path, NullDoc, "HTTP400")
     ELSE Proceed(w, "admin_put_config", config_path, NullDoc, content)
  /\ UNCHANGED notStoreVars

\* server.py:478-500: PUT /api/admin/config, content being a string
admin_put_config(w, content) ==
  /\ CanStart(w)
  /\ IF LoadRaises(content) \/ Load(content) = NullDoc \/ ~IsDict(Load(content))
     THEN Fail(w, "admin_put_config", config_path, NullDoc, "HTTP400")
     ELSE Proceed(w, "admin_put_config", config_path, NullDoc, content)
  /\ UNCHANGED notStoreVars

\* server.py:546-559: PUT /api/admin/frequency-words, content being a string
admin_put_frequency_words(w, content) ==
  /\ CanStart(w)
  /\ Proceed(w, "admin_put_frequency_words", frequency_words_path, NullDoc, content)
  /\ UNCHANGED notStoreVars

RECURSIVE to_plain(_)
\* config_store.py:24-29: mappings and sequences are rebuilt, the keys as
\* strings (they are strings here); a sequence's members are scalars here.
to_plain(d) ==
  IF IsDict(d)
  THEN [d EXCEPT !.items = [n \in 1..Len(d.items) |->
                              [k |-> d.items[n].k, v |-> to_plain(d.items[n].v)]]]
  ELSE d

\* config_store.py:131-137, as called by server.py:503-511
get_config_plain(w) ==
  /\ CanStart(w)
  /\ LET loaded == load_config_yaml
     IN  IF loaded.raises
         THEN Fail(w, "get_config_plain", config_path, NullDoc, "YAMLError")
         ELSE IF loaded.data = NullDoc \/ ~IsDict(loaded.data)
         THEN Return(w, "get_config_plain", config_path, NullDoc, "ok", EmptyMap)
         ELSE Return(w, "get_config_plain", config_path, NullDoc, "ok",
                     to_plain(loaded.data))
  /\ UNCHANGED notStoreVars

\* The backup file written for path at second ts replaces one of that name.
WriteBackup(path, ts, text) ==
  {b \in backups : ~(b.path = path /\ b.ts = ts)} \cup
  {[path |-> path, ts |-> ts, text |-> text]}

\* Faulty variant of BackupStep: no backup when the new content equals the old.
BackupStepUnlessSame(w) ==
  /\ w \in writers
  /\ pc[w] = "backup"
  /\ IF Exists(call[w].path) /\ ReadText(fs[call[w].path]) # call[w].content
     THEN /\ backups' = WriteBackup(call[w].path, now, ReadText(fs[call[w].path]))
          /\ call' = [call EXCEPT ![w].ts = now, ![w].backed_up = TRUE]
     ELSE UNCHANGED <<backups, call>>
  /\ pc' = [pc EXCEPT ![w] = "write"]
  /\ UNCHANGED <<fs, now, config_path, frequency_words_path, writers, done, calls>>
  /\ UNCHANGED notStoreVars

\* config_store.py:93-97 and server.py:228-232:
\*   if path.exists(): backup_path.write_text(path.read_text())
BackupStep(w) ==
  /\ w \in writers
  /\ pc[w] = "backup"
  /\ IF Exists(call[w].path)
     THEN /\ backups' = WriteBackup(call[w].path, now, ReadText(fs[call[w].path]))
          /\ call' = [call EXCEPT ![w].ts = now, ![w].backed_up = TRUE]
     ELSE UNCHANGED <<backups, call>>
  /\ pc' = [pc EXCEPT ![w] = "write"]
  /\ UNCHANGED <<fs, now, config_path, frequency_words_path, writers, done, calls>>
  /\ UNCHANGED notStoreVars

\* config_store.py:98 and server.py:233: path.write_text(content)
WriteStep(w) ==
  /\ w \in writers
  /\ pc[w] = "write"
  /\ fs' = [fs EXCEPT ![call[w].path] = call[w].content]
  /\ pc' = [pc EXCEPT ![w] = "idle"]
  /\ done' = [done EXCEPT ![w] =
                [op |-> call[w].op, path |-> call[w].path, arg |-> call[w].arg,
                 result |-> "ok", value |-> NullDoc,
                 content |-> call[w].content, backed_up |-> call[w].backed_up,
                 pre_text |-> call[w].pre_text, pre_backups |-> call[w].pre_backups]]
  /\ call' = [call EXCEPT ![w] = NoCall]
  /\ UNCHANGED <<backups, now, config_path, frequency_words_path, writers, calls>>
  /\ UNCHANGED notStoreVars

\* A second passes.
Tick ==
  /\ now < MaxClock
  /\ now' = now + 1
  /\ UNCHANGED <<fs, backups, config_path, frequency_words_path, writers, pc, call, done,
                 calls>>
  /\ UNCHANGED notStoreVars

StoreNext ==
  \/ \E w \in Writers, p \in PatchArguments : call_patch_config(w, p)
  \/ \E w \in Writers, p \in BodyPatches : admin_patch_config(w, p)
  \/ \E w \in Writers : get_config_plain(w)
  \/ \E w \in Writers : reset_config_to_default(w)
  \/ \E w \in Writers : reset_words_to_default(w)
  \/ \E w \in Writers, content \in PutConfigTexts : admin_put_config(w, content)
  \/ \E w \in Writers, content \in PutWordsTexts : admin_put_frequency_words(w, content)
  \/ \E w \in Writers : BackupStep(w)
  \/ \E w \in Writers : WriteStep(w)
  \/ Tick

(***************************************************************************)
(* get_output_dir (server.py:95-147) with OUTPUT_DIR unset.  A directory   *)
(* is <<base, name>>: the name under /app or under the working directory.  *)
(***************************************************************************)
\* None, for a timestamp and for a directory.  A timestamp t is <<t>>.
None == <<>>

AppDir == "/app"
Cwd == "."
AppOutput == <<AppDir, "output">>
DataDirs == {"output", "data"}       \* storage.local.data_dir, relative
OutputDirs == {<<b, d>> : b \in {AppDir, Cwd}, d \in DataDirs}

NoConfigFile == [exists |-> FALSE, mtime |-> None, data_dir |-> "output"]
EmptyCache == [config_mtime |-> None, dir |-> None]

OutIdle ==
  /\ config_file = NoConfigFile
  /\ dirs = {}
  /\ fstime = 0
  /\ OUTPUT_DIR_CACHE = EmptyCache
  /\ returned = None

\* The server starts, in the image (/app exists) or outside it, with or
\* without a configuration file and output directories.
OutInit ==
  /\ \E app \in BOOLEAN, ds \in SUBSET OutputDirs :
       /\ dirs = {d \in ds : d[1] = (IF app THEN AppDir ELSE Cwd)}
                 \cup (IF app THEN {<<AppDir>>} ELSE {})
  /\ config_file \in {NoConfigFile} \cup
                     {[exists |-> TRUE, mtime |-> <<0>>, data_dir |-> d] : d \in DataDirs}
  /\ fstime = 0
  /\ OUTPUT_DIR_CACHE = EmptyCache
  /\ returned = None

\* server.py:98-101
base_dir == IF <<AppDir>> \in dirs THEN AppDir ELSE Cwd

\* server.py:125-143: the resolution without the cache
ResolveOutputDir ==
  LET data_dir == IF config_file.exists THEN config_file.data_dir ELSE "output"
      out == <<base_dir, data_dir>>
  IN  IF out \notin dirs /\ AppOutput \in dirs THEN AppOutput ELSE out

\* server.py:116-119
ConfigMtime == IF config_file.exists THEN config_file.mtime ELSE None

\* server.py:122
CacheHit ==
  OUTPUT_DIR_CACHE.dir # None /\ OUTPUT_DIR_CACHE.config_mtime = ConfigMtime

\* server.py:104-147: get_output_dir()
get_output_dir ==
  /\ IF CacheHit
     THEN /\ returned' = OUTPUT_DIR_CACHE.dir
          /\ UNCHANGED OUTPUT_DIR_CACHE
     ELSE /\ returned' = ResolveOutputDir
          /\ OUTPUT_DIR_CACHE' = [config_mtime |-> ConfigMtime, dir |-> ResolveOutputDir]
  /\ UNCHANGED <<config_file, dirs, fstime, notOutVars>>

\* The configuration file is written with data_dir d (server.py:227-233,
\* config_store.py:92-98); its st_mtime is the file system's current timestamp.
WriteConfig(d) ==
  /\ config_file' = [exists |-> TRUE, mtime |-> <<fstime>>, data_dir |-> d]
  /\ returned' = None
  /\ UNCHANGED <<dirs, fstime, OUTPUT_DIR_CACHE, notOutVars>>

\* The configuration file is deleted.
DeleteConfig ==
  /\ config_file.exists
  /\ config_file' = NoConfigFile
  /\ returned' = None
  /\ UNCHANGED <<dirs, fstime, OUTPUT_DIR_CACHE, notOutVars>>

\* An output directory is created (by the crawler, or by a mounted volume).
MakeDir(d) ==
  /\ d \notin dirs
  /\ d[1] = base_dir
  /\ dirs' = dirs \cup {d}
  /\ returned' = None
  /\ UNCHANGED <<config_file, fstime, OUTPUT_DIR_CACHE, notOutVars>>

\* The file system's timestamp advances.
OutTick ==
  /\ fstime < MaxMtime
  /\ fstime' = fstime + 1
  /\ UNCHANGED <<config_file, dirs, OUTPUT_DIR_CACHE, returned, notOutVars>>

OutNext ==
  \/ get_output_dir
  \/ \E d \in DataDirs : WriteConfig(d)
  \/ DeleteConfig
  \/ \E d \in OutputDirs : MakeDir(d)
  \/ OutTick

(***************************************************************************)
(* saveAsMultipleImages (html.py:662-890): what it does to the page.  The  *)
(* function runs until an await and resumes when the awaited promise       *)
(* settles; one action is one such run.  A label is [text, k, n]: the      *)
(* wording with the counters it shows.                                     *)
(***************************************************************************)
Label(text, k, n) == [text |-> text, k |-> k, n |-> n]
ButtonLabel == Label("save as multiple images", 0, 0)   \* as rendered
Generating(k, n) == Label("generating", k, n)           \* html.py:796, 805
Saved(n) == Label("saved", 0, n)                        \* html.py:874
SaveFailed == Label("failed", 0, 0)                     \* html.py:884

PageAtRest ==
  /\ button = [textContent |-> ButtonLabel, disabled |-> FALSE]
  /\ originalText = ButtonLabel
  /\ save_buttons = "visible"
  /\ tempContainers = 0
  /\ images = 0
  /\ segment_count = 0
  /\ loop_i = 0
  /\ expPc = "idle"

ExportIdle == PageAtRest /\ exports = 0

ExportInit == PageAtRest /\ exports = 0

\* html.py:802-827: the head of one capture iteration, up to the first await
\* (the button's text is set by the caller)
AttachTempContainer ==
  /\ tempContainers' = tempContainers + 1
  /\ expPc' = "dom_wait"

\* html.py:662-827: the click on the enabled button; the page is analysed
\* into n segments, the buttons are hidden, the first iteration begins
Click(n) ==
  /\ expPc = "idle"
  /\ ~button.disabled
  /\ exports < MaxExports
  /\ exports' = exports + 1
  /\ originalText' = button.textContent
  /\ segment_count' = n
  /\ save_buttons' = "hidden"
  /\ images' = 0
  /\ loop_i' = 0
  /\ button' = [textContent |-> Generating(1, n), disabled |-> TRUE]
  /\ AttachTempContainer
  /\ UNCHANGED notExportVars

\* html.py:827: the 100 ms timer fires; html2canvas is called
DomUpdated ==
  /\ expPc = "dom_wait"
  /\ expPc' = "html2canvas"
  /\ UNCHANGED <<button, originalText, save_buttons, tempContainers, images,
                 segment_count, loop_i, exports, notExportVars>>

\* html.py:830-848, then 802-827 or 851-870: the capture succeeds; the image is
\* kept, the temporary container removed, and either the next iteration
\* begins or the buttons are shown and the first download is started
CaptureDone ==
  /\ expPc = "html2canvas"
  /\ images' = images + 1
  /\ IF loop_i + 1 < segment_count
     THEN /\ loop_i' = loop_i + 1
          /\ button' = [button EXCEPT !.textContent = Generating(loop_i + 2, segment_count)]
          /\ tempContainers' = (tempContainers - 1) + 1
          /\ expPc' = "dom_wait"
          /\ UNCHANGED save_buttons
     ELSE /\ loop_i' = 0
          /\ tempContainers' = tempContainers - 1
          /\ save_buttons' = "visible"
          /\ expPc' = "download_wait"
          /\ UNCHANGED button
  /\ UNCHANGED <<originalText, segment_count, exports, notExportVars>>

\* html.py:830-845 and 879-889: html2canvas rejects, or toDataURL throws; the
\* catch block shows the buttons, reports the failure and sets the timer
CaptureFails ==
  /\ expPc = "html2canvas"
  /\ save_buttons' = "visible"
  /\ button' = [button EXCEPT !.textContent = SaveFailed]
  /\ expPc' = "restore_timer"
  /\ UNCHANGED <<originalText, tempContainers, images, segment_count, loop_i,
                 exports, notExportVars>>

\* html.py:861-878: the 100 ms timer after a download fires; the next download
\* is started, or the count is reported and the timer set
Downloaded ==
  /\ expPc = "download_wait"
  /\ IF loop_i + 1 < images
     THEN /\ loop_i' = loop_i + 1
          /\ UNCHANGED <<button, expPc>>
     ELSE /\ button' = [button EXCEPT !.textContent = Saved(segment_count)]
          /\ expPc' = "restore_timer"
          /\ UNCHANGED loop_i
  /\ UNCHANGED <<originalText, save_buttons, tempContainers, images,
                 segment_count, exports, notExportVars>>

\* html.py:875-878, 885-888: the 2 s timer fires
RestoreButton ==
  /\ expPc = "restore_timer"
  /\ button' = [textContent |-> originalText, disabled |-> FALSE]
  /\ expPc' = "idle"
  /\ UNCHANGED <<originalText, save_buttons, tempContainers, images,
                 segment_count, loop_i, exports, notExportVars>>

\* What the browser does by itself: timers fire and promises settle.
ExportStep ==
  \/ DomUpdated
  \/ CaptureDone
  \/ CaptureFails
  \/ Downloaded
  \/ RestoreButton

ExportNext ==
  \/ \E n \in 1..MaxSegments : Click(n)
  \/ ExportStep

(***************************************************************************)
(* Specifications.                                                         *)
(***************************************************************************)
InitSeg == SegInit /\ ClsIdle /\ MergeIdle /\ StoreIdle /\ OutIdle /\ ExportIdle
SpecSeg == InitSeg /\ [][SegNext]_vars

InitClassify == ClsInit /\ SegIdle /\ MergeIdle /\ StoreIdle /\ OutIdle /\ ExportIdle
SpecClassify == InitClassify /\ [][ClsNext]_vars

InitMerge == MergeInit /\ SegIdle /\ ClsIdle /\ StoreIdle /\ OutIdle /\ ExportIdle
SpecMerge == InitMerge /\ [][MergeNext]_vars

\* One caller at a time, as the store assumes.
InitStore == StoreInit({1}) /\ SegIdle /\ ClsIdle /\ MergeIdle /\ OutIdle /\ ExportIdle
SpecStore == InitStore /\ [][StoreNext]_vars

InitOutputDir == OutInit /\ SegIdle /\ ClsIdle /\ MergeIdle /\ StoreIdle /\ ExportIdle
SpecOutputDir == InitOutputDir /\ [][OutNext]_vars

InitExport ==
  ExportInit /\ SegIdle /\ ClsIdle /\ MergeIdle /\ StoreIdle /\ OutIdle
SpecExport == InitExport /\ [][ExportNext]_vars
\* A timer that is set fires, and the promise of html2canvas settles
\* (imageTimeout bounds its image loading); a click is the user's choice.
SpecExportFair == SpecExport /\ WF_vars(ExportStep)

(***************************************************************************)
(* Classification: what the claims speak of.                               *)
(***************************************************************************)
Rendered == clsPc = "rendered"

\* The least and the greatest element of a non-empty sequence of numbers.
Least(s) == CHOOSE m \in {s[n] : n \in 1..Len(s)} : \A n \in 1..Len(s) : m <= s[n]
Greatest(s) == CHOOSE m \in {s[n] : n \in 1..Len(s)} : \A n \in 1..Len(s) : m >= s[n]

\* The titles of the input, by list, as <<k, j>>: the j-th title of the k-th
\* keyword group, or of the k-th source of the new titles.
StatsTitles ==
  UNION {{<<k, j>> : j \in 1..Len(report_data.stats[k].titles)} :
           k \in 1..Len(report_data.stats)}

NewTitles ==
  UNION {{<<k, j>> : j \in 1..Len(report_data.new_titles[k].titles)} :
           k \in 1..Len(report_data.new_titles)}

StatsInput(kj) == report_data.stats[kj[1]].titles[kj[2]]
NewInput(kj) == report_data.new_titles[kj[1]].titles[kj[2]]
StatsBadge(kj) == view.stats[kj[1]].titles[kj[2]].rank_badge
NewBadge(kj) == view.new_titles[kj[1]].titles[kj[2]].rank_badge

\* The bucket the specification gives a best rank m under threshold th.
ExpectedRankBucket(m, th) ==
  CASE m <= 3 -> "top"
    [] m > 3 /\ m <= th -> "high"
    [] OTHER -> ""

ThresholdOf(title_data) ==
  IF title_data.has_rank_threshold THEN title_data.rank_threshold ELSE 10

\* The label the specification gives: the single value, or "min-max".
ExpectedRankLabel(ranks) ==
  IF Least(ranks) = Greatest(ranks) THEN Str(Least(ranks))
  ELSE Str(Least(ranks)) \o <<"-">> \o Str(Greatest(ranks))

\* C7 (heat bucket): every group's heat bucket is hot when count >= 10, warm
\* when 5 <= count < 10 and none when count < 5; in particular 4 -> none,
\* 5 -> warm, 10 -> hot and the counts 12, 6, 2 give hot, warm, none.
C7_HeatBucket ==
  Rendered =>
    /\ Len(view.stats) = Len(report_data.stats)
    /\ \A k \in 1..Len(report_data.stats) :
         LET count == report_data.stats[k].count
             bucket == view.stats[k].count_class
         IN  /\ count >= 10 => bucket = "hot"
             /\ (5 <= count /\ count < 10) => bucket = "warm"
             /\ count < 5 => bucket = ""
             /\ count = 4 => bucket = ""
             /\ count = 5 => bucket = "warm"
             /\ count = 10 => bucket = "hot"
    /\ (Len(report_data.stats) = 3
        /\ report_data.stats[1].count = 12
        /\ report_data.stats[2].count = 6
        /\ report_data.stats[3].count = 2)
       => /\ view.stats[1].count_class = "hot"
          /\ view.stats[2].count_class = "warm"
          /\ view.stats[3].count_class = ""

\* C7 witness: the report with the counts 12, 6, 2 has been rendered.
C7_Witness ==
  /\ Rendered
  /\ Len(report_data.stats) = 3
  /\ report_data.stats[1].count = 12
  /\ report_data.stats[2].count = 6
  /\ report_data.stats[3].count = 2
  /\ view.stats[1].count_class = "hot"
  /\ view.stats[2].count_class = "warm"
  /\ view.stats[3].count_class = ""

\* C8 (rank bucket): every title with a non-empty ranks sequence, in the
\* keyword list and in the new-titles list, has the bucket top when
\* min(ranks) <= 3, otherwise high when min(ranks) <= rank_threshold (10 when
\* the key is absent), otherwise none.
C8_RankBucket ==
  Rendered =>
    /\ \A kj \in StatsTitles :
         Len(StatsInput(kj).ranks) > 0 =>
           /\ Len(StatsBadge(kj)) = 1
           /\ StatsBadge(kj)[1].rank_class =
                ExpectedRankBucket(Least(StatsInput(kj).ranks), ThresholdOf(StatsInput(kj)))
    /\ \A kj \in NewTitles :
         Len(NewInput(kj).ranks) > 0 =>
           NewBadge(kj)[1].rank_class =
             ExpectedRankBucket(Least(NewInput(kj).ranks), ThresholdOf(NewInput(kj)))

\* C8 witness: a title whose best rank is 3 under a threshold of 2 (top wins),
\* not observed first, rendered in both lists.
C8_Witness ==
  /\ Rendered
  /\ \E kj \in StatsTitles :
       /\ Len(StatsInput(kj).ranks) = 2
       /\ StatsInput(kj).ranks[2] = 3
       /\ StatsInput(kj).ranks[1] > 3
       /\ StatsInput(kj).has_rank_threshold
       /\ StatsInput(kj).rank_threshold = 2
       /\ StatsBadge(kj)[1].rank_class = "top"
  /\ \E kj \in NewTitles : NewBadge(kj)[1].rank_class = "top"

\* C9 (rank label): every title with a non-empty ranks sequence is labelled,
\* in the keyword list and in the new-titles list, with the single value
\* min(ranks) when min(ranks) = max(ranks) and with "min-max" otherwise.
C9_RankLabel ==
  Rendered =>
    /\ \A kj \in StatsTitles :
         Len(StatsInput(kj).ranks) > 0 =>
           StatsBadge(kj)[1].rank_text = ExpectedRankLabel(StatsInput(kj).ranks)
    /\ \A kj \in NewTitles :
         Len(NewInput(kj).ranks) > 0 =>
           NewBadge(kj)[1].rank_text = ExpectedRankLabel(NewInput(kj).ranks)

\* The labels that stand for "no rank known": the one the report prints and
\* the one the claim names.
Unknown == <<"u", "n", "k", "n", "o", "w", "n">>
Sentinels == {<<"?">>, Unknown}

\* C10 (empty ranks): a title with an empty ranks sequence is classified
\* without failure in both lists: it carries a rank badge whose bucket is none
\* and whose label is an explicit sentinel, never an absent label.
C10_EmptyRanks ==
  Rendered =>
    /\ \A kj \in StatsTitles :
         Len(StatsInput(kj).ranks) = 0 =>
           /\ Len(StatsBadge(kj)) = 1
           /\ StatsBadge(kj)[1].rank_class = ""
           /\ StatsBadge(kj)[1].rank_text \in Sentinels
    /\ \A kj \in NewTitles :
         Len(NewInput(kj).ranks) = 0 =>
           /\ Len(NewBadge(kj)) = 1
           /\ NewBadge(kj)[1].rank_class = ""
           /\ NewBadge(kj)[1].rank_text \in Sentinels

\* C10 witness: a title with no ranks has been rendered in both lists.
C10_Witness ==
  /\ Rendered
  /\ \E kj \in StatsTitles : Len(StatsInput(kj).ranks) = 0
  /\ \E kj \in NewTitles : Len(NewInput(kj).ranks) = 0 /\ Len(NewBadge(kj)) = 1

(***************************************************************************)
(* Deep merge: what the claim speaks of.                                   *)
(***************************************************************************)
RECURSIVE MergedAs(_, _, _)
\* r is the deep merge of the mapping p into the mapping t: a mapping with
\* the keys of both, once each; a key of p holds the merge of the two values
\* when both are mappings and p's value otherwise; any other key holds t's
\* value.
MergedAs(r, t, p) ==
  /\ IsDict(r)
  /\ Keys(r) = Keys(t) \cup Keys(p)
  /\ Len(r.items) = Cardinality(Keys(r))
  /\ \A k \in Keys(p) :
       IF HasKey(t, k) /\ IsDict(Get(t, k)) /\ IsDict(Get(p, k))
       THEN MergedAs(Get(r, k), Get(t, k), Get(p, k))
       ELSE Get(r, k) = Get(p, k)
  /\ \A k \in Keys(t) \ Keys(p) : Get(r, k) = Get(t, k)

\* {a: {b: 1, c: 2}}
ExampleTarget == MapDoc(<<"a">>, <<MapDoc(<<"b", "c">>, <<Scalar(1), Scalar(2)>>)>>)
\* {a: {b: 99}}
ExamplePatchMap == MapDoc(<<"a">>, <<MapDoc(<<"b">>, <<Scalar(99)>>)>>)
\* {a: [1, 2]}
ExamplePatchSeq == MapDoc(<<"a">>, <<SeqDoc(<<1, 2>>)>>)

\* C6 (deep merge): for a mapping target and a mapping patch the result is a
\* mapping where each key of the patch holds the recursive merge when both
\* values are mappings and the patch's value wholesale otherwise, and every
\* other key keeps the target's value; {a:{b:1,c:2}} with {a:{b:99}} gives
\* {a:{b:99,c:2}} and with {a:[1,2]} gives {a:[1,2]}.
C6_DeepMerge ==
  mergePc = "merged" =>
    /\ MergedAs(merged, target, patch)
    /\ (target = ExampleTarget /\ patch = ExamplePatchMap) =>
         merged = MapDoc(<<"a">>, <<MapDoc(<<"b", "c">>, <<Scalar(99), Scalar(2)>>)>>)
    /\ (target = ExampleTarget /\ patch = ExamplePatchSeq) =>
         merged = MapDoc(<<"a">>, <<SeqDoc(<<1, 2>>)>>)

\* C6 witness: {a:{b:1,c:2}} has been patched with {a:{b:99}}, the key c kept.
C6_Witness ==
  /\ mergePc = "merged"
  /\ target = ExampleTarget
  /\ patch = ExamplePatchMap
  /\ Get(Get(merged, "a"), "c") = Scalar(2)
  /\ Get(Get(merged, "a"), "b") = Scalar(99)


(***************************************************************************)
(* The configuration store: what the claims speak of.                      *)
(***************************************************************************)
\* The names of a set of backup files: the destination and the timestamp.
BackupNames(bs) == {<<b.path, b.ts>> : b \in bs}

\* The backup files that exist now and did not when w's last call began.
NewBackups(w) == {b \in backups : <<b.path, b.ts>> \notin BackupNames(done[w].pre_backups)}

StoreOps == {"patch_config", "reset_config_to_default", "reset_words_to_default"}

\* w's last call was a store operation that returned, on a destination that
\* existed when it began, and nothing has run since.
ReturnedOnExisting(w) ==
  /\ w \in writers
  /\ pc[w] = "idle"
  /\ done[w].result = "ok"
  /\ done[w].op \in StoreOps
  /\ done[w].pre_text # Absent

\* C4: after a single patch_config, reset_config_to_default or
\* reset_words_to_default call on a destination that existed before the call,
\* exactly one backup file exists that did not exist before the call, and its
\* content equals the destination's content immediately before the call.
C4_BackupBeforeWrite ==
  \A w \in Writers :
    ReturnedOnExisting(w) =>
      \E b \in backups :
        /\ NewBackups(w) = {b}
        /\ b.path = done[w].path
        /\ b.text = done[w].pre_text

\* w overwrites its destination in this step.
Overwrites(w) == pc[w] = "write" /\ pc'[w] = "idle"

\* C5: on every write path (patch, reset, the server's direct replace of the
\* config or keyword file), a destination changes only in the overwriting step
\* of a call, and when the destination exists at that step the call has
\* already copied the text the destination still holds to its backup file;
\* the copy is made whatever the new content is, the same as the old included.
C5_BackupPrecedesWrite ==
  [][/\ \A p \in Paths :
          fs'[p] # fs[p] => \E w \in writers : Overwrites(w) /\ call[w].path = p
     /\ \A w \in writers :
          Overwrites(w) /\ Exists(call[w].path) =>
            /\ call[w].backed_up
            /\ [path |-> call[w].path, ts |-> call[w].ts,
                text |-> ReadText(fs[call[w].path])] \in backups]_vars

\* A call has overwritten an existing destination with content equal to what
\* it held, after backing it up.
C5_Witness ==
  \E w \in writers :
    /\ done[w].result = "ok"
    /\ done[w].pre_text # Absent
    /\ done[w].content = done[w].pre_text
    /\ done[w].backed_up
    /\ \E b \in backups : b.path = done[w].path /\ b.text = done[w].pre_text


\* Caller w enters patch_config in this step: the call goes on to its backup
\* step or ends here with an error.
PatchCalled(w) ==
  /\ pc[w] = "idle"
  /\ calls' = calls + 1
  /\ \/ pc'[w] = "backup" /\ call'[w].op = "patch_config"
     \/ pc'[w] = "idle" /\ done'[w].op = "patch_config"

\* The configuration loads, and to a root that is a sequence or a scalar (an
\* empty document, which loads to None, is patched as the empty mapping).
RootIsNoMapping ==
  /\ ~load_config_yaml.raises
  /\ load_config_yaml.data # NullDoc
  /\ ~IsDict(load_config_yaml.data)

\* C11 (InvalidDocument): when the configuration loads to a root that is not
\* a mapping, a patch_config call ends at once with the error ValueError: the
\* caller is idle again, and no file and no backup file has changed.
C11_InvalidDocument ==
  [][\A w \in writers :
       PatchCalled(w) /\ RootIsNoMapping =>
         /\ pc'[w] = "idle"
         /\ done'[w].result = "ValueError"
         /\ fs' = fs
         /\ backups' = backups]_vars

\* C11 witness: patch_config has failed on a sequence-rooted configuration
\* file, which is still there, with no backup made.
C11_Witness ==
  \E w \in writers :
    /\ pc[w] = "idle"
    /\ done[w].op = "patch_config"
    /\ done[w].result = "ValueError"
    /\ done[w].pre_text = YamlText(SeqRootDoc)
    /\ fs[config_path] = YamlText(SeqRootDoc)
    /\ backups = {}


\* Caller w asks for a patch in this step, of the store or of the endpoint.
PatchRequested(w) ==
  /\ pc[w] = "idle"
  /\ calls' = calls + 1
  /\ \/ pc'[w] = "backup" /\ call'[w].op = "patch_config"
     \/ pc'[w] = "idle" /\ done'[w].op \in {"patch_config", "admin_patch_config"}

\* The patch it passes.
PatchArgument(w) == IF pc'[w] = "backup" THEN call'[w].arg ELSE done'[w].arg

\* C12 (MalformedPatch): when the patch argument is not a mapping, the patch
\* operation ends at once with an error: the caller is idle again, and no
\* file and no backup file has changed.
C12_MalformedPatch ==
  [][\A w \in writers :
       PatchRequested(w) /\ ~IsDict(PatchArgument(w)) =>
         /\ pc'[w] = "idle"
         /\ done'[w].result # "ok"
         /\ fs' = fs
         /\ backups' = backups]_vars

\* C12 witness: patch_config, handed a patch that is no mapping, has returned
\* normally after backing up and rewriting the configuration file.
C12_Witness ==
  \E w \in writers :
    /\ pc[w] = "idle"
    /\ done[w].op = "patch_config"
    /\ ~IsDict(done[w].arg)
    /\ done[w].result = "ok"
    /\ done[w].backed_up


\* The place in the list of the first candidate that exists, 0 when none does.
FirstIndex(candidates) ==
  LET ex == {n \in 1..Len(candidates) : Exists(candidates[n])}
  IN  IF ex = {} THEN 0 ELSE CHOOSE n \in ex : \A m \in ex : n <= m

\* The text of that candidate.
TemplateOf(candidates) == ReadText(fs[candidates[FirstIndex(candidates)]])

\* Caller w calls op in this step, and the call goes on to its backup step.
Started(w, op) ==
  pc[w] = "idle" /\ calls' = calls + 1 /\ pc'[w] = "backup" /\ call'[w].op = op

\* Caller w calls op in this step, and the call ends in it.
Ended(w, op) ==
  pc[w] = "idle" /\ calls' = calls + 1 /\ pc'[w] = "idle" /\ done'[w].op = op

\* A reset op over candidates: it fails with FileNotFoundError exactly when
\* notFound holds, touching no file then, and otherwise what it goes on to
\* write is the first existing candidate's text, unless that is refused.
ResetLookup(w, op, candidates, notFound) ==
  /\ Started(w, op) \/ Ended(w, op) =>
       (notFound <=> (Ended(w, op) /\ done'[w].result = "FileNotFoundError"))
  /\ Ended(w, op) /\ done'[w].result = "FileNotFoundError" =>
       fs' = fs /\ backups' = backups
  /\ Started(w, op) => call'[w].content = TemplateOf(candidates)

\* The read fallback: with no configuration file, what is read is the first
\* existing candidate's document.
ReadLookup(w) ==
  ( /\ Ended(w, "get_config_plain")
    /\ ~Exists(config_path)
    /\ FirstIndex(default_config_candidates) # 0
    /\ IsDict(Load(TemplateOf(default_config_candidates))) ) =>
    done'[w].value = Load(TemplateOf(default_config_candidates))

\* C13 (default lookup), as claimed: the template of a reset and of the read
\* fallback is the first existing candidate, and a reset fails with
\* FileNotFoundError, without backup or write, exactly when no candidate
\* exists.
C13_DefaultLookupIffNone ==
  [][\A w \in writers :
       /\ ResetLookup(w, "reset_config_to_default", default_config_candidates,
                      FirstIndex(default_config_candidates) = 0)
       /\ ResetLookup(w, "reset_words_to_default", default_words_candidates,
                      FirstIndex(default_words_candidates) = 0)
       /\ ReadLookup(w)]_vars

\* C13, amended: the template of a reset and of the read fallback is the
\* first existing candidate; a reset fails with FileNotFoundError, without
\* backup or write, exactly when no candidate exists or, for the
\* configuration, when the first existing candidate is an empty file.
C13_DefaultLookup ==
  [][\A w \in writers :
       /\ ResetLookup(w, "reset_config_to_default", default_config_candidates,
                      \/ FirstIndex(default_config_candidates) = 0
                      \/ ~NonEmpty(TemplateOf(default_config_candidates)))
       /\ ResetLookup(w, "reset_words_to_default", default_words_candidates,
                      FirstIndex(default_words_candidates) = 0)
       /\ ReadLookup(w)]_vars

\* C13 witness: with both candidates present and different, a reset has
\* written the first one's text.
C13_Witness ==
  \E w \in writers :
    /\ pc[w] = "idle"
    /\ done[w].op = "reset_config_to_default"
    /\ done[w].result = "ok"
    /\ Exists(AppDefaultConfig) /\ Exists(LocalConfig)
    /\ ReadText(fs[AppDefaultConfig]) # ReadText(fs[LocalConfig])
    /\ fs[config_path] = ReadText(fs[AppDefaultConfig])


\* A template a configuration reset accepts: it exists and parses to a mapping.
ValidTemplate(candidates) ==
  /\ FirstIndex(candidates) # 0
  /\ ~LoadRaises(TemplateOf(candidates))
  /\ IsDict(Load(TemplateOf(candidates)))

\* C14 (reset): a configuration reset goes on to write exactly when the
\* default template parses to a mapping, and otherwise fails without backup or
\* write; a keyword reset goes on to write whenever a template exists, an
\* empty one included; and the write of a reset leaves in the destination the
\* template's text, as read, unchanged.
C14_Reset ==
  [][\A w \in writers :
       /\ Started(w, "reset_config_to_default") \/ Ended(w, "reset_config_to_default") =>
            IF ValidTemplate(default_config_candidates)
            THEN Started(w, "reset_config_to_default")
            ELSE /\ Ended(w, "reset_config_to_default")
                 /\ done'[w].result \notin {"ok", "none"}
                 /\ fs' = fs
                 /\ backups' = backups
       /\ ( /\ Started(w, "reset_words_to_default") \/ Ended(w, "reset_words_to_default")
            /\ FirstIndex(default_words_candidates) # 0 ) =>
            Started(w, "reset_words_to_default")
       /\ Overwrites(w) /\ call[w].op = "reset_config_to_default" =>
            /\ fs'[config_path] = TemplateOf(default_config_candidates)
            /\ done'[w].result = "ok"
       /\ Overwrites(w) /\ call[w].op = "reset_words_to_default" =>
            /\ fs'[frequency_words_path] = TemplateOf(default_words_candidates)
            /\ done'[w].result = "ok"]_vars

\* C14 witness: a reset has replaced a different configuration by the text of
\* a template with CR LF line ends.
C14_Witness ==
  \E w \in writers :
    /\ pc[w] = "idle"
    /\ done[w].op = "reset_config_to_default"
    /\ done[w].result = "ok"
    /\ done[w].pre_text \notin {Absent, done[w].content}
    /\ fs[AppDefaultConfig].crlf
    /\ fs[config_path] = ReadText(fs[AppDefaultConfig])


\* The document a text stands for when read as a configuration: its root when
\* that is a mapping, the empty document otherwise.
DocumentOf(t) == IF IsDict(Load(t)) THEN Load(t) ELSE EmptyMap

\* Caller w reads the configuration in this step, and what it gets is read
\* from the text source: its document, or the parse error of a source that is
\* no YAML.
ReadsFrom(w, source) ==
  Ended(w, "get_config_plain") =>
    IF LoadRaises(source) THEN done'[w].result = "YAMLError"
    ELSE done'[w].result = "ok" /\ done'[w].value = DocumentOf(source)

\* The source as claimed: the file when it exists, else the first existing
\* default candidate, else nothing.
ClaimedSource ==
  IF Exists(config_path) THEN ReadText(fs[config_path])
  ELSE IF FirstIndex(default_config_candidates) # 0
  THEN TemplateOf(default_config_candidates)
  ELSE EmptyText

\* The source in fact: the file when it exists and is not empty, else the
\* first existing default candidate, else nothing.
ActualSource ==
  IF Exists(config_path) /\ NonEmpty(fs[config_path]) THEN ReadText(fs[config_path])
  ELSE IF FirstIndex(default_config_candidates) # 0
  THEN TemplateOf(default_config_candidates)
  ELSE EmptyText

MappingRootedOrAbsent(files) ==
  \/ files[config_path] = Absent
  \/ /\ ~LoadRaises(ReadText(files[config_path]))
     /\ IsDict(Load(ReadText(files[config_path])))

\* C16: from a configuration file that is absent or mapping-rooted, no step
\* of a mutation (patch, reset, the endpoint's replace), successful or failed,
\* leads to a configuration file that exists and does not parse to a mapping;
\* so it stays absent or mapping-rooted after any sequence of them.
C16_StaysMappingRooted ==
  [][MappingRootedOrAbsent(fs) => MappingRootedOrAbsent(fs')]_vars

\* C16 witness: after two mutation calls, the last successful, the configuration
\* file, mapping-rooted before, exists with another mapping-rooted content.
C16_Witness ==
  \E w \in writers :
    /\ pc[w] = "idle"
    /\ calls = 2
    /\ done[w].result = "ok"
    /\ done[w].path = config_path
    /\ IsDict(Load(done[w].pre_text))
    /\ fs[config_path] # done[w].pre_text
    /\ IsDict(Load(fs[config_path]))
    /\ Cardinality(backups) = 1


(***************************************************************************)
(* The export of a long report under a given budget: the split loop of     *)
(* saveAsMultipleImages (html.py:761-794) run with the page's own budget   *)
(* in place of maxHeight.                                                  *)
(***************************************************************************)
ScenarioHeaderHeights == {80}
ScenarioBudgets == {1000}
ScenarioGroupCounts == {50}
ScenarioWordHeaderHeights == {36}
\* the news-items of one word-group, 120 tall with its header and borders
ScenarioGroupShapes == {<<82>>, <<41, 41>>}
ScenarioFooterHeights == {0, 40}

ScenarioPages ==
  {[headerH |-> h, footerH |-> f, wordHeaderH |-> wh, errorH |-> 0,
    groups |-> [g \in 1..n |-> shape], newBodyH |-> 0, reverse |-> FALSE,
    budget |-> b] :
     h \in ScenarioHeaderHeights, f \in ScenarioFooterHeights,
     wh \in ScenarioWordHeaderHeights, n \in ScenarioGroupCounts,
     shape \in ScenarioGroupShapes, b \in ScenarioBudgets}

InitScenario ==
  /\ page \in ScenarioPages
  /\ elements = <<>>
  /\ segments = <<>>
  /\ currentSegment = NoSegment
  /\ i = 0
  /\ segPc = "collect"
  /\ ClsIdle /\ MergeIdle /\ StoreIdle /\ OutIdle /\ ExportIdle

\* html.py:767-788 with page.budget for maxHeight
ScenarioSplitStep ==
  /\ segPc = "split"
  /\ i < Len(elements)
  /\ LET r == SplitIteration(segments, currentSegment, elements[i + 1], elements[i],
                             page.budget, page.headerH)
     IN  /\ segments' = r.segments
         /\ currentSegment' = r.current
  /\ i' = i + 1
  /\ UNCHANGED <<page, elements, segPc, notSegVars>>

ScenarioNext == Collect \/ ScenarioSplitStep \/ Finish

SpecScenario == InitScenario /\ [][ScenarioNext]_vars

\* The scenario: 50 word-groups of 120 each, a header of 80, a budget of 1000.
InScenario ==
  /\ Segmented
  /\ "budget" \in DOMAIN page
  /\ page.budget = 1000
  /\ page.headerH = 80
  /\ Len(page.groups) = 50
  /\ \A g \in 1..Len(page.groups) : GroupHeight(page, page.groups[g]) = 120

Classification(v) ==
  [stats |-> [k \in 1..Len(v.stats) |->
                [count_class |-> v.stats[k].count_class,
                 i |-> v.stats[k].i,
                 total_count |-> v.stats[k].total_count,
                 titles |-> [j \in 1..Len(v.stats[k].titles) |->
                               [number |-> v.stats[k].titles[j].number,
                                rank_badge |-> v.stats[k].titles[j].rank_badge]]]],
   new_titles |-> [k \in 1..Len(v.new_titles) |->
                     [j \in 1..Len(v.new_titles[k].titles) |->
                        [number |-> v.new_titles[k].titles[j].number,
                         rank_badge |-> v.new_titles[k].titles[j].rank_badge]]]]

SecondCall == clsPc = "rendered" /\ clsPc' = "rerendered"

C19_OrderPreserved ==
  Rendered =>
    /\ Len(view.stats) = Len(report_data.stats)
    /\ \A k \in 1..Len(report_data.stats) :
         /\ view.stats[k].word = report_data.stats[k].word
         /\ view.stats[k].i = k
         /\ view.stats[k].total_count = Len(report_data.stats)
         /\ Len(view.stats[k].titles) = Len(report_data.stats[k].titles)
         /\ \A j \in 1..Len(report_data.stats[k].titles) :
              /\ view.stats[k].titles[j].title = report_data.stats[k].titles[j].title
              /\ view.stats[k].titles[j].number = j

\* C19 witness: a report of three keyword groups, two titles each, rendered.
C19_Witness ==
  /\ Rendered
  /\ Len(view.stats) = 3
  /\ view.stats[3].i = 3
  /\ view.stats[3].total_count = 3
  /\ Len(view.stats[3].titles) = 2
  /\ view.stats[3].titles[2].number = 2


(***************************************************************************)
(* Two callers of the store on the same files: a handler declared with     *)
(* def runs in the server's thread pool, one declared with async def on    *)
(* the event loop, and another process may use the same paths.             *)
(***************************************************************************)
InitWriters ==
  /\ StoreInit(Writers)
  /\ fs[config_path] = YamlText(BaseDoc)
  /\ fs[AppDefaultConfig] = YamlText(DefaultDoc)
  /\ fs[frequency_words_path] = WordsText(1)
  /\ fs[AppDefaultWords] = WordsText(0)
  /\ SegIdle /\ ClsIdle /\ MergeIdle /\ OutIdle /\ ExportIdle

\* The mutations of the configuration file and the steps of write_with_backup.
WritersNext ==
  \/ \E w \in Writers, p \in BodyPatches : admin_patch_config(w, p)
  \/ \E w \in Writers : reset_config_to_default(w)
  \/ \E w \in Writers, content \in PutConfigTexts : admin_put_config(w, content)
  \/ \E w \in Writers : BackupStep(w)
  \/ \E w \in Writers : WriteStep(w)
  \/ Tick

SpecWriters == InitWriters /\ [][WritersNext]_vars

\* While one caller is between its read and its write, another can start
\* an operation on the same file.
NoLock ==
  \A w \in writers, v \in writers :
    (w # v /\ pc[w] \in {"backup", "write"} /\ pc[v] = "idle" /\ calls < MaxCalls)
      => ENABLED reset_config_to_default(v)

\* The write step stores what the operation computed from its own read,
\* whatever the file holds by then.
LastWriterWins ==
  \A w \in writers :
    Overwrites(w) => fs'[call[w].path] = call[w].content

\* C20 (lost update): nothing keeps a second writer from starting while a
\* first is between its read and its write, and every write stores the
\* content computed from the writer's own read; so the later write discards a
\* change written in between.
C20_LostUpdate == []NoLock /\ [][LastWriterWins]_vars

\* C20 witness: a patch and another mutation of the same file have both
\* succeeded, both having read the same original; the file holds the patch's
\* content, which is not what the patch gives when it reads the other's
\* result: the other writer's change is absent from the file.
C20_Witness ==
  \E w \in writers, v \in writers :
    /\ w # v
    /\ pc[w] = "idle" /\ pc[v] = "idle"
    /\ done[w].result = "ok" /\ done[v].result = "ok"
    /\ done[w].op = "patch_config"
    /\ done[v].op \in {"patch_config", "reset_config_to_default", "admin_put_config"}
    /\ done[w].path = config_path /\ done[v].path = config_path
    /\ done[w].pre_text = done[v].pre_text
    /\ done[v].content # done[v].pre_text
    /\ fs[config_path] = done[w].content
    /\ fs[config_path] # done[v].content
    /\ fs[config_path] # dump_yaml(MergedInPlace(Load(done[v].content), done[w].arg))

(***************************************************************************)
(* Round trip, backups, reset after patches, patch without a file.         *)
(***************************************************************************)
\* Caller w's patch_config with the empty mapping as its patch goes on to
\* write_with_backup in this step.
EmptyPatchProceeds(w) ==
  /\ pc[w] = "idle"
  /\ pc'[w] = "backup"
  /\ call'[w].op = "patch_config"
  /\ call'[w].arg = EmptyMap

EmptyInput ==
  /\ Segmented
  /\ Len(page.groups) = 0
  /\ Len(elements) = 2
  /\ elements[1].type = "header"
  /\ elements[2].type = "footer"

\* C22 as claimed (empty input): a page with no node besides the header is
\* exported as exactly one segment, spanning [0, headerHeight).
C22_EmptyInputClaimed ==
  EmptyInput =>
    /\ Len(segments) = 1
    /\ segments[1].start = 0
    /\ segments[1].end = page.headerH

\* C22 (empty input): a page with no node besides the header and the footer
\* is exported as exactly one segment, which includes the header and spans
\* [0, the container's total height).
C22_EmptyInput ==
  EmptyInput =>
    /\ Len(segments) = 1
    /\ segments[1].start = 0
    /\ segments[1].end = ContainerHeight(page)
    /\ segments[1].includeHeader

\* C22 witness: an empty page has been segmented; its one segment ends below
\* the header.
C22_Witness ==
  /\ EmptyInput
  /\ Len(segments) = 1
  /\ segments[1].end > page.headerH

\* C23 (malformed geometry): on every page, those included whose elements are
\* not in the order of their bottom offsets, the split loop runs to its end
\* and every emitted segment has end >= start and a height of at least 0.
C23_MalformedGeometry ==
  /\ (segPc = "split" /\ i >= Len(elements)) => ENABLED Finish
  /\ (segPc = "split" /\ i < Len(elements)) => ENABLED SplitStep
  /\ \A k \in 1..Len(segments) :
       /\ segments[k].end >= segments[k].start
       /\ segments[k].height >= 0

\* C23 witness: a page whose new-section precedes the word-groups, so that an
\* element's bottom lies above the previous element's, exported in two
\* segments or more.
C23_Witness ==
  /\ Segmented
  /\ \E k \in 1..(Len(elements) - 1) : elements[k + 1].bottom < elements[k].bottom
  /\ Len(segments) >= 2

\* The split loop handles the node elements[i + 1] in this step.
NodeHandled == segPc = "split" /\ i < Len(elements) /\ i' = i + 1

\* The current segment holds a node beyond the header: it is a later segment,
\* opened with the node that closed the one before, or the first segment
\* after a node has been added to it.
HoldsNode == Len(segments) > 0 \/ i >= 2

\* The specification's condition for closing the current segment at the node
\* elements[i + 1].
RuleSplits ==
  /\ elements[i + 1].bottom - currentSegment.start > maxHeight
  /\ HoldsNode

\* What a step following the rule does.
FollowsRule ==
  IF RuleSplits
  THEN /\ segments' = Append(segments, [currentSegment EXCEPT !.end = elements[i].bottom])
       /\ currentSegment'.start = elements[i].bottom
  ELSE /\ segments' = segments
       /\ currentSegment'.start = currentSegment.start
       /\ currentSegment'.end = elements[i + 1].bottom

\* C24 (split rule): for every node in document order and every current
\* segment, the first and the later ones: if the node's bottom minus the
\* segment's start exceeds the budget and the segment holds a node beyond the
\* header, the segment is closed at the previous node's bottom and a new one
\* is opened there; otherwise the segment is extended to the node's bottom.
C24_SplitRule == [][NodeHandled => FollowsRule]_vars

\* C24 witness: a node was over the budget for a later segment that held a
\* node, and the page has been exported.
C24_Witness ==
  /\ Segmented
  /\ Len(segments) >= 2
  /\ \E k \in 2..Len(segments) : SegmentHeight(segments[k]) > maxHeight

\* C25 (header inclusion): of the segments emitted, the first starts at
\* offset 0 and includes the header; every later one does not include the
\* header and starts at the bottom offset of an element.
C25_HeaderInclusion ==
  \A k \in 1..Len(segments) :
    IF k = 1
    THEN segments[k].start = 0 /\ segments[k].includeHeader
    ELSE /\ ~segments[k].includeHeader
         /\ \E n \in 1..Len(elements) : segments[k].start = elements[n].bottom

\* C25 witness: a page exported in three segments, the header in the first
\* alone.
C25_Witness ==
  /\ Segmented
  /\ Len(segments) = 3
  /\ segments[1].includeHeader
  /\ ~segments[3].includeHeader
  /\ segments[3].start > 0

\* C26 (backups are never lost): no step of a single writer's patch, reset or
\* direct-replace calls removes a content from the backups: whatever some
\* backup file of a destination holds, some backup file of that destination
\* still holds after the step, calls within the same clock second included.
C26_BackupsKept ==
  [][\A b \in backups :
       \E c \in backups' : c.path = b.path /\ c.text = b.text]_vars

\* C26 witness: two calls of one writer have each backed up the same file,
\* within the same clock second.
C26_Witness ==
  \E w \in writers :
    /\ writers = {w}
    /\ calls = 2
    /\ pc[w] = "idle"
    /\ done[w].result = "ok"
    /\ done[w].backed_up
    /\ \E b \in done[w].pre_backups : b.path = done[w].path /\ b.ts = now

\* Caller w's last call was a patch_config that changed the configuration file.
PatchedBefore(w) ==
  /\ done[w].op = "patch_config"
  /\ done[w].result = "ok"
  /\ done[w].content # done[w].pre_text

\* The file a reset of the configuration takes its template from.
TemplatePath == default_config_candidates[FirstIndex(default_config_candidates)]

\* C27 (reset undoes patches): with the store wired as in the server, a
\* reset_config_to_default that follows patch_config calls and goes on to
\* write takes what it writes from the default template, a file other than
\* the patched configuration file: the content written does not depend on the
\* patches.
C27_ResetUndoesPatches ==
  [][\A w \in writers :
       (Started(w, "reset_config_to_default") /\ PatchedBefore(w)) =>
         /\ TemplatePath # config_path
         /\ call'[w].content = ReadText(fs[TemplatePath])]_vars

\* The text holds the value the model's patch sets: a.b = 99.
HoldsPatchedValue(t) ==
  LET d == Load(t) IN
  /\ IsDict(d) /\ HasKey(d, "a")
  /\ IsDict(Get(d, "a")) /\ HasKey(Get(d, "a"), "b")
  /\ Get(Get(d, "a"), "b") = Scalar(99)

\* C27 witness: a reset has succeeded after a patch, with config/config.yaml
\* as the active file and no /app/config.default/config.yaml: the file still
\* holds the patched value.
C27_Witness ==
  \E w \in writers :
    /\ pc[w] = "idle"
    /\ calls = 2
    /\ done[w].op = "reset_config_to_default"
    /\ done[w].result = "ok"
    /\ config_path = LocalConfig
    /\ ~Exists(AppDefaultConfig)
    /\ HoldsPatchedValue(fs[config_path])
    /\ \E b \in backups : b.path = config_path /\ ~HoldsPatchedValue(b.text)

\* The first existing default template's text, the empty text when there is none.
DefaultTextOrEmpty ==
  IF FirstIndex(default_config_candidates) = 0 THEN EmptyText
  ELSE TemplateOf(default_config_candidates)

\* The document a patch starts from when the configuration file is missing:
\* the template's, the empty mapping for no template or one holding no
\* document.
UnconfiguredBase ==
  IF Load(DefaultTextOrEmpty) = NullDoc THEN EmptyMap ELSE Load(DefaultTextOrEmpty)

\* Every key of the document base that the patch p does not name is in the
\* document d with base's value.
KeepsKeys(d, base, p) ==
  \A k \in Keys(base) :
    (IsDict(p) /\ HasKey(p, k)) \/ (HasKey(d, k) /\ Get(d, k) = Get(base, k))

\* C28 (patch on an unconfigured store): with the configuration file missing,
\* a patch_config call that finds the template unreadable as a mapping fails
\* and creates nothing; any other goes on to write the template's document
\* (the empty mapping without a template) merged with the patch, so with every
\* default key the patch does not name; its write creates the file, and the
\* call makes no backup file.
C28_PatchUnconfigured ==
  [][\A w \in writers :
       /\ (PatchCalled(w) /\ ~Exists(config_path)) =>
            IF LoadRaises(DefaultTextOrEmpty) \/ ~IsDict(UnconfiguredBase)
            THEN pc'[w] = "idle" /\ fs' = fs /\ backups' = backups
            ELSE /\ pc'[w] = "backup"
                 /\ Load(call'[w].content) = MergedInPlace(UnconfiguredBase, call'[w].arg)
                 /\ KeepsKeys(Load(call'[w].content), UnconfiguredBase, call'[w].arg)
       /\ (Overwrites(w) /\ call[w].op = "patch_config" /\ call[w].pre_text = Absent) =>
            /\ ~Exists(config_path)
            /\ fs'[config_path] = call[w].content
            /\ ~call[w].backed_up
            /\ backups' = call[w].pre_backups]_vars

\* C28 witness: a patch has created the configuration file from a template of
\* another path, with the patched value and without a backup.
C28_Witness ==
  \E w \in writers :
    /\ pc[w] = "idle"
    /\ done[w].op = "patch_config"
    /\ done[w].result = "ok"
    /\ done[w].pre_text = Absent
    /\ Exists(config_path)
    /\ HoldsPatchedValue(fs[config_path])
    /\ Keys(Load(fs[config_path])) = {"a", "d"}
    /\ backups = {}

(***************************************************************************)
(* The output directory: what the claim speaks of.                         *)
(***************************************************************************)
\* C29 (cache coherence): with OUTPUT_DIR unset, after any sequence of
\* configuration writes, configuration deletions and output-directory
\* creations, what get_output_dir has just returned is the directory the
\* resolution without the cache gives in that state.
C29_CacheCoherent ==
  returned # None => returned = ResolveOutputDir

\* C29 witness: a call has returned the cached directory after the
\* configuration was rewritten at a later timestamp and an output directory
\* was created.
C29_Witness ==
  /\ returned # None
  /\ OUTPUT_DIR_CACHE.dir = returned
  /\ config_file.exists
  /\ config_file.mtime # <<0>>
  /\ OUTPUT_DIR_CACHE.config_mtime = config_file.mtime
  /\ returned \in dirs

(***************************************************************************)
(* The export's cleanup: what the claim speaks of.                         *)
(***************************************************************************)
ButtonsRestored ==
  /\ save_buttons = "visible"
  /\ button = [textContent |-> ButtonLabel, disabled |-> FALSE]

PreExportState ==
  /\ expPc = "idle"
  /\ ButtonsRestored
  /\ tempContainers = 0

\* C30 (export cleanup): every run of saveAsMultipleImages, whether all
\* captures succeed or one fails, eventually returns the page to its
\* pre-export state: the save buttons visible, the clicked button enabled
\* with its original label, no temporary container attached to the document.
C30_ExportCleanup ==
  (expPc # "idle") ~> PreExportState

\* C30 witness: a run in which a capture failed has ended; the buttons are
\* back and a temporary container is still attached.
C30_Witness ==
  /\ expPc = "idle"
  /\ exports > 0
  /\ ButtonsRestored
  /\ tempContainers > 0

====
